---- MODULE Spec2Model ----
(***************************************************************************)
(* A model of tickBot's ticket workflow (src/tick/actions.py, bot.py).     *)
(*                                                                         *)
(* The bot is one asyncio event loop.  A flow (a coroutine) runs from one  *)
(* suspension point to the next; a platform event (a reaction, a message)  *)
(* is dispatched to every waiter registered with client.wait_for, and a    *)
(* waiter whose check accepts the event is resolved and unregistered.      *)
(* Each flow lives in a slot of one of the variables req (ticket_request,  *)
(* practice_ticket_request, Ticket.swap, Ticket.review), cl (Ticket.close) *)
(* and wiz (the Admin wizards).                                            *)
(*                                                                         *)
(* The flows read the GuildConfig and Ticket rows through the attribute    *)
(* names actions.py uses (role_id, adult_role_id, supporter_id, ...).      *)
(***************************************************************************)
EXTENDS Integers, Sequences, FiniteSets, TLC

\* ------------------------------------------------------------- bounds
MaxReq == 1          \* matching flows started in one run
MaxRetries == 1      \* over-length replies per intake dialog
MaxClose == 2        \* Ticket.close commands issued in one run
MaxWiz == 1          \* admin wizards started in one run
MaxReask == 1        \* invalid (re-asked) wizard replies per wizard
MaxHist == 4         \* messages in the history of an archived channel
MaxAge == 3          \* hours a most recent message is followed for
MaxRows == 2         \* rows a table of tickdb holds
MaxSetup == 2        \* Admin.ticket_setup commands issued in one run

\* ---------------------------------------------------- program constants
MAX_QUESTION_LEN == 500
FLUSH_LEN == 10000
HOUR == 3600
DEFAULT_TICKET_TIMEOUT == 7200
LEN_TEXT == 1500
NONE == "none"
YES_EMOJI == "yes"
NO_EMOJI == "no"
U18_EMOJI == "u18"
ADMIN_ROLE == "Ticket Supervisor"
QUESTIONS_CANCEL == "cancel"
STOP_MSG == "stop"

\* ------------------------------------------------------------ the guild
GUILD == "guild"                             \* self.msg.guild.id
BOT == "bot"                                   \* client.user
Members == {"ann", "adm", "sam", "sue"}
Actors == Members \cup {BOT}
Emojis == {YES_EMOJI, NO_EMOJI, U18_EMOJI}
SUPPORT == <<"support", 0>>                    \* the channel holding the pins
NOCHAN == <<"none", 0>>                        \* no channel (NULL channel_id)
Chan(n) == <<"ticket", n>>                     \* the n-th channel the guild created
DEFAULT_ROLE == "@everyone"                    \* guild.default_role

\* c_user.roles: the roles each member of the guild holds.
member_roles(u) ==
    CASE u = "ann" -> {"r_support"}
      [] u = "adm" -> {ADMIN_ROLE}
      [] u = "sam" -> {"r_support", "r_practice"}
      [] u = "sue" -> {"r_support", "r_adult", "r_practice"}
      [] u = BOT   -> {"r_support"}
      [] OTHER     -> {}

\* The members that trigger requests in this model.
Requesters == {"ann", "adm"}

VARIABLES
    config,      \* the guild's GuildConfig row as the flows read it
    questions,   \* RequestGather.questions, the intake questions
    req,         \* matching flows: slot -> flow record
    cl,          \* Ticket.close flows: slot -> flow record
    wiz,         \* Admin wizard flows: slot -> flow record
    tickets,     \* Ticket rows: id -> row
    channels,    \* existing ticket channels: channel id -> overwrites
    nextId,      \* [ticket, chan]: the next Ticket.id and the next channel id handed out
    removals,    \* scheduled asyncio.ensure_future(c_react.remove(c_user))
    logchan,     \* entries delivered to the guild's log channel
    archive,     \* create_log: the channel history, the buffer and the file written
    guild_configs,   \* GuildConfig rows: the guild ids that have one
    ticket_configs,  \* TicketConfig rows: id -> row
    setup,       \* Admin.ticket_setup flows: slot -> flow record
    texts,       \* TicketConfigText / TicketText rows, and what the last assignment raised
    result,      \* what the last tickdb.query call returned or raised
    latest,      \* the most recent message of each ticket channel: its age and author
    watchdog     \* the inactivity watchdog: its position, the tickets left to scan

\* the rows and calls of tickdb, and the watchdog with what it reads
store == <<guild_configs, ticket_configs, setup, texts, result>>
watch == <<latest, watchdog>>

vars == <<config, questions, req, cl, wiz, tickets, channels, nextId, removals, logchan, archive,
          store, watch>>

\* --------------------------------------------------------- pure helpers
\* len(resp.content) of the reply contents the model draws from
ContentLen(c) ==
    CASE c = "long501" -> 501
      [] c = "long500" -> 500
      [] c = "cancel"  -> 6
      [] c = "Cancel"  -> 6
      [] c = "stop"    -> 4
      [] OTHER         -> 4

\* str.lower() on the reply contents the model draws from
LowerIdentity(c) == c

Lower(c) == IF c = "Cancel" THEN "cancel" ELSE c

Contents == {"cancel", "Cancel", "long501", "long500"}

SeqSet(s) == {s[i] : i \in DOMAIN s}

\* roles of the matching round of ticket_request
request_roles(adult_needed) ==
    IF adult_needed /\ config.adult_role_id # NONE
    THEN {config.adult_role_id}
    ELSE {config.role_id}

\* ---------------------------------------------------- request_check_roles
\* The check of one matching round: does the gesture resolve the wait, and
\* is its removal scheduled.
RequestCheckNoSelfTest(sent, user, roles, m, e, u) ==
    IF u = BOT \/ m # sent
    THEN [response |-> FALSE, remove |-> FALSE]
    ELSE LET can_respond == member_roles(u) \cap roles # {}
             can_cancel == u = user \/ ADMIN_ROLE \in member_roles(u)
             response == (can_respond /\ e = YES_EMOJI) \/ (can_cancel /\ e = NO_EMOJI)
         IN  [response |-> response, remove |-> ~response]

RequestCheckNoRemove(sent, user, roles, m, e, u) ==
    IF u = BOT \/ m # sent
    THEN [response |-> FALSE, remove |-> FALSE]
    ELSE LET can_respond == member_roles(u) \cap roles # {} /\ u # user
             can_cancel == u = user \/ ADMIN_ROLE \in member_roles(u)
             response == (can_respond /\ e = YES_EMOJI) \/ (can_cancel /\ e = NO_EMOJI)
         IN  [response |-> response, remove |-> ~response /\ e \in {YES_EMOJI, NO_EMOJI}]

\* request_check with the decline open to every eligible responder
RequestCheckResponderCancels(sent, user, roles, m, e, u) ==
    IF u = BOT \/ m # sent
    THEN [response |-> FALSE, remove |-> FALSE]
    ELSE LET can_respond == member_roles(u) \cap roles # {} /\ u # user
             can_cancel == u = user \/ can_respond \/ ADMIN_ROLE \in member_roles(u)
             response == (can_respond /\ e = YES_EMOJI) \/ (can_cancel /\ e = NO_EMOJI)
         IN  [response |-> response, remove |-> ~response]

request_check(sent, user, roles, m, e, u) ==
    IF u = BOT \/ m # sent
    THEN [response |-> FALSE, remove |-> FALSE]
    ELSE LET can_respond == member_roles(u) \cap roles # {} /\ u # user
             can_cancel == u = user \/ ADMIN_ROLE \in member_roles(u)
             response == (can_respond /\ e = YES_EMOJI) \/ (can_cancel /\ e = NO_EMOJI)
         IN  [response |-> response, remove |-> ~response]

\* ------------------------------------------------------- matching flows
\* the slots of the run: MaxReq of them, unless the specification says otherwise
ReqSlots == DOMAIN req

ReqIdle ==
    [kind |-> NONE, pc |-> "idle", user |-> NONE, chan |-> NOCHAN,
     adult_needed |-> FALSE, qi |-> 0, responses |-> <<>>, sent |-> <<>>,
     posted |-> {}, bulk |-> <<>>, retries |-> 0,
     roles |-> {}, prompt |-> NONE, reaction |-> NONE, responder |-> NONE,
     old_responder |-> NONE, outcome |-> NONE, ticket |-> 0, notice |-> NONE,
     reactions |-> {}, echo |-> {}, late |-> {}, preamble |-> NONE, resolved |-> <<>>]

\* The prompt message of flow r (sent) and the preamble of its intake dialog.
Prompt(r) == <<"prompt", r>>
Preamble(r) == <<"preamble", r>>
OTHER_MSG == <<"other", 0>>

\* A waiter registered by client.wait_for is resolved by at most one event:
\* the flow is registered exactly while it is suspended in the wait.
ListeningUntilDeleted(f) == f.pc \in {"waiting", "resolved"}

Listening(f) == f.pc = "waiting"

\* sent = await chan.send(...); sent.add_reaction(YES_EMOJI); sent.add_reaction(NO_EMOJI);
\* client.wait_for('reaction_add', check=request_check_roles(...)).  The gateway
\* still owes the bot the events of its own two reactions (echo).
post_request(f, roles) ==
    [f EXCEPT !.pc = "waiting", !.roles = roles, !.prompt = "posted",
              !.echo = {YES_EMOJI, NO_EMOJI}]

\* The loop runs what it already scheduled before it handles a new event: a
\* scheduled removal is run, and the bot's own reactions are echoed, before
\* any member's event is handled or any flow is resumed.
Quiet == removals = {} /\ \A r \in DOMAIN req : req[r].echo = {}

\* the slot a new matching flow is started in
FreeReq(r) == req[r].kind = NONE /\ \A q \in ReqSlots : q < r => req[q].kind # NONE

\* ------------------------------------------------------- the intake dialog
\* RequestGather.ask_questions ends (its finally clause): every collected
\* message goes to one chan.delete_messages call; on success the flow goes
\* on to post the request, otherwise InvalidCommandArgs reaches
\* on_raw_reaction_add, which shows its text to the channel.
ask_questions_end(f, how) ==
    LET g == [f EXCEPT !.bulk = IF f.sent # <<>> THEN Append(@, SeqSet(f.sent)) ELSE @]
    IN  CASE how = "ok" -> [g EXCEPT !.pc = "gathered"]
          [] how = "cancelled" ->
                [g EXCEPT !.pc = "done", !.outcome = "intake_cancelled",
                          !.notice = "Request cancelled by user."]
          [] OTHER ->
                [g EXCEPT !.pc = "done", !.outcome = "intake_timeout",
                          !.notice = "User didn't respond to questions in time. Cancelling request."]

\* the loop of ask_questions sends question i and waits for the response
ask_question(f, r, i) ==
    [f EXCEPT !.pc = "question", !.qi = i,
              !.sent = Append(@, <<"q", r, i>>),
              !.posted = @ \cup {<<"q", r, i>>}]

\* needs_adult's check of a reaction
needs_adult_check(f, e, u) == u = f.user /\ e \in {YES_EMOJI, NO_EMOJI, U18_EMOJI}

\* needs_adult resolved with emoji e, and ask_questions up to its next wait
needs_adult(f, r, e) ==
    IF e = NO_EMOJI
    THEN ask_questions_end([f EXCEPT !.preamble = e], "cancelled")
    ELSE LET g == [f EXCEPT !.adult_needed = (e = U18_EMOJI), !.preamble = e]
         IN  IF Len(questions) = 0
             THEN ask_questions_end(g, "ok")
             ELSE ask_question(g, r, 1)

\* wait_for_response's check with the channel left out
CheckAuthorOnly(f, ch, u) == u = f.user

\* wait_for_response's check of a message
wait_for_response_check(f, ch, u) == u = f.user /\ ch = f.chan

\* The messages wait_for_response collects for one reply with content c.
CollectedDropLong(f, r, c) ==
    LET n == Len(f.sent) + 1
    IN  IF ContentLen(c) > MAX_QUESTION_LEN
        THEN <<<<"notice", r, n + 1>>>>
        ELSE <<<<"reply", r, n>>>>

Collected(f, r, c) ==
    LET n == Len(f.sent) + 1
    IN  IF ContentLen(c) > MAX_QUESTION_LEN
        THEN <<<<"reply", r, n>>, <<"notice", r, n + 1>>>>
        ELSE <<<<"reply", r, n>>>>

\* wait_for_response with the length test off by one
WaitForResponseOffByOne(f, r, c) ==
    LET n == Len(f.sent) + 1
        g == [f EXCEPT !.sent = @ \o Collected(f, r, c),
                       !.posted = @ \cup IF ContentLen(c) > MAX_QUESTION_LEN
                                         THEN {<<"reply", r, n>>, <<"notice", r, n + 1>>}
                                         ELSE {<<"reply", r, n>>}]
    IN  IF ContentLen(c) > MAX_QUESTION_LEN + 1
        THEN [g EXCEPT !.retries = @ + 1]
        ELSE LET h == [g EXCEPT !.responses = Append(@, c)]
             IN  IF Lower(c) = QUESTIONS_CANCEL
                 THEN ask_questions_end(h, "cancelled")
                 ELSE IF f.qi < Len(questions)
                      THEN ask_question(h, r, f.qi + 1)
                      ELSE ask_questions_end(h, "ok")

\* wait_for_response with ask_questions putting the reply in front of the
\* responses collected so far
WaitForResponsePrepends(f, r, c) ==
    LET n == Len(f.sent) + 1
        g == [f EXCEPT !.sent = @ \o Collected(f, r, c),
                       !.posted = @ \cup IF ContentLen(c) > MAX_QUESTION_LEN
                                         THEN {<<"reply", r, n>>, <<"notice", r, n + 1>>}
                                         ELSE {<<"reply", r, n>>}]
    IN  IF ContentLen(c) > MAX_QUESTION_LEN
        THEN [g EXCEPT !.retries = @ + 1]
        ELSE LET h == [g EXCEPT !.responses = <<c>> \o @]
             IN  IF Lower(c) = QUESTIONS_CANCEL
                 THEN ask_questions_end(h, "cancelled")
                 ELSE IF f.qi < Len(questions)
                      THEN ask_question(h, r, f.qi + 1)
                      ELSE ask_questions_end(h, "ok")

\* wait_for_response got a message with content c, and ask_questions up to
\* its next wait.
wait_for_response(f, r, c) ==
    LET n == Len(f.sent) + 1
        g == [f EXCEPT !.sent = @ \o Collected(f, r, c),
                       !.posted = @ \cup IF ContentLen(c) > MAX_QUESTION_LEN
                                         THEN {<<"reply", r, n>>, <<"notice", r, n + 1>>}
                                         ELSE {<<"reply", r, n>>}]
    IN  IF ContentLen(c) > MAX_QUESTION_LEN
        THEN [g EXCEPT !.retries = @ + 1]
        ELSE LET h == [g EXCEPT !.responses = Append(@, c)]
             IN  IF Lower(c) = QUESTIONS_CANCEL
                 THEN ask_questions_end(h, "cancelled")
                 ELSE IF f.qi < Len(questions)
                      THEN ask_question(h, r, f.qi + 1)
                      ELSE ask_questions_end(h, "ok")

\* ---------------------------------------------------------- Ticket.close
ClSlots == 1..MaxClose

ClIdle ==
    [pc |-> "idle", chan |-> NOCHAN, author |-> NONE, ticket |-> 0,
     first |-> NONE, second |-> NONE, dm |-> NONE, transcript |-> FALSE,
     deleted |-> {}, outcome |-> NONE, notice |-> NONE, after |-> {}]

\* the prompt a close flow is waiting on
ClPrompt(k) == <<"close", k>>

\* the slot a new close flow is started in
FreeCl(k) == cl[k].pc = "idle" /\ \A j \in ClSlots : j < k => cl[j].pc # "idle"

\* wait_for_user_reaction's check of a reaction
wait_for_user_reaction_check(f, e, u) == u = f.author /\ e \in {YES_EMOJI, NO_EMOJI}

\* wait_for_user_reaction's first return value
AlwaysYes(e) == TRUE

wait_for_user_reaction(e) == e = YES_EMOJI

\* log_channel.send: Ticket.execute replaces a log channel that is not
\* configured by a mock that drops what it is sent.
LogSendDropped(entries, entry) == entries

log_channel_send(entries, entry) ==
    IF config.log_channel_id # NONE THEN entries \cup {entry} ELSE entries

\* self.msg.channel.send(text) in flow f, which ends the flow with outcome how;
\* discord.NotFound leaves the flow when the channel is gone.
close_end(f, how, text) ==
    IF f.chan \in DOMAIN channels
    THEN [f EXCEPT !.pc = "done", !.outcome = how, !.notice = text]
    ELSE [f EXCEPT !.pc = "done", !.outcome = "NotFound"]

\* except asyncio.TimeoutError of Ticket.close
close_cancelled(f) == close_end(f, "cancelled", "Cancelling request to close ticket.")

\* Ticket.close after the DM of the transcript: discord.Forbidden sends
\* TICKET_CLOSE_PERMS and returns; otherwise the close goes on to delete.
AfterDmIgnoreForbidden(f, dm) == [f EXCEPT !.pc = "deleting", !.dm = dm]

after_dm(f, dm) ==
    IF dm = "forbidden"
    THEN close_end([f EXCEPT !.dm = dm], "dm_forbidden", "TICKET_CLOSE_PERMS")
    ELSE [f EXCEPT !.pc = "deleting", !.dm = dm]

\* A reaction_add event reaches the close flow f: the waiter of the first or
\* of the second wait_for_user_reaction.
ClReaction(f, e, u) ==
    IF f.pc \in {"confirm", "dm_prompt"} /\ wait_for_user_reaction_check(f, e, u)
    THEN IF f.pc = "confirm"
         THEN IF wait_for_user_reaction(e)
              THEN [f EXCEPT !.pc = "confirmed", !.first = e]
              ELSE close_cancelled([f EXCEPT !.first = e])
         ELSE IF wait_for_user_reaction(e)
              THEN [f EXCEPT !.pc = "dm", !.second = e]
              ELSE [f EXCEPT !.pc = "deleting", !.second = e]
    ELSE f

\* ------------------------------------------------------- Admin wizards
WizSlots == 1..MaxWiz

WizIdle ==
    [kind |-> NONE, pc |-> "idle", step |-> 0, author |-> NONE, chan |-> NOCHAN,
     assigned |-> {}, committed |-> FALSE, outcome |-> NONE, resp |-> NONE,
     stopped |-> 0, ran |-> {}, reasks |-> 0, reacted |-> FALSE, created |-> FALSE]

\* the slot a new wizard is started in
FreeWiz(w) == wiz[w].pc = "idle" /\ \A j \in WizSlots : j < w => wiz[j].pc # "idle"

\* the prompts (loops) of each wizard, in order
WizSteps(kind) ==
    CASE kind = "pin" -> <<"pinned_message_id">>
      [] kind = "guild_setup" -> <<"log_channel_id", "ticket_channel_id", "category_channel_id">>
      [] kind = "ticket_setup" -> <<"prefix", "emoji_id", "timeout", "roles">>
      [] OTHER -> <<>>

\* the replies the model draws from: STOP_MSG, a reply in another case, one
\* channel mention, a number, two role mentions, the name of a category
WizContents == {STOP_MSG, "Stop", "#chan", "2", "@r1 @r2", "tickets"}

\* does the loop of the prompt for field accept reply c (set the field and break)
WizAccepts(field, c) ==
    CASE field \in {"log_channel_id", "ticket_channel_id"} -> c = "#chan"
      [] field = "category_channel_id" -> c \in {"tickets", "Tickets"}
      [] field = "timeout" -> c = "2"
      [] field = "roles" -> c = "@r1 @r2"
      [] OTHER -> TRUE

\* the check of the wizards' message waits
wizard_check(f, ch, u) == ch = f.chan /\ u = f.author

\* the wizard sends its next prompt, or runs what follows its last loop;
\* Admin.execute commits and sends the returned text
wizard_next(f) ==
    IF f.step < Len(WizSteps(f.kind))
    THEN [f EXCEPT !.step = @ + 1, !.ran = @ \cup {f.step + 1}]
    ELSE [f EXCEPT !.pc = "done", !.outcome = "completed", !.committed = TRUE,
                   !.reacted = (f.kind = "ticket_setup"),
                   !.resp = CASE f.kind = "pin" -> "Pinning your message now."
                              [] f.kind = "guild_setup" -> "Configuration completed!"
                              [] OTHER -> "Ticket flow completed. Making reaction."]

\* resp.content == STOP_MSG in the loop of the current prompt: pin returns its
\* abort text, guild_setup and ticket_setup return, and the roles loop of
\* ticket_setup breaks.
wizard_stop(f) ==
    LET g == [f EXCEPT !.stopped = f.step]
    IN  IF WizSteps(f.kind)[f.step] = "roles"
        THEN wizard_next(g)
        ELSE [g EXCEPT !.pc = "done", !.outcome = "cancelled", !.committed = TRUE,
                       !.resp = IF f.kind = "pin" THEN "Aborting new pinned message." ELSE NONE]

\* A message event reaches wizard f.
WizMessage(f, ch, u, c) ==
    IF f.pc = "wait" /\ WizSteps(f.kind)[f.step] # "emoji_id" /\ wizard_check(f, ch, u)
    THEN IF c = STOP_MSG
         THEN wizard_stop(f)
         ELSE IF WizAccepts(WizSteps(f.kind)[f.step], c)
              THEN wizard_next([f EXCEPT !.assigned = @ \cup {<<WizSteps(f.kind)[f.step], c>>}])
              ELSE [f EXCEPT !.reasks = @ + 1]
    ELSE f

\* A reaction_add event reaches wizard f: the emoji prompt of ticket_setup
\* takes any reaction of the author.
WizReaction(f, e, u) ==
    IF f.pc = "wait" /\ WizSteps(f.kind)[f.step] = "emoji_id" /\ u = f.author
    THEN wizard_next([f EXCEPT !.assigned = @ \cup {<<"emoji_id", e>>}])
    ELSE f

\* ------------------------------------------------------------- dispatch
\* A reaction_add event reaches the matching flow f in slot r: the waiter of
\* needs_adult, or the waiter of the matching round.  A reaction on the
\* flow's prompt stays on it (reactions); late is the last one added to the
\* prompt after its wait resolved, which no waiter sees.
ReqReaction(f, r, m, e, u) ==
    IF f.pc = "preamble" /\ needs_adult_check(f, e, u)
    THEN needs_adult(f, r, e)
    ELSE IF Listening(f)
    THEN LET g == IF m = Prompt(r)
                  THEN [f EXCEPT !.reactions = @ \cup {<<e, u>>},
                                 !.echo = IF u = BOT THEN @ \ {e} ELSE @]
                  ELSE f
         IN  IF request_check(Prompt(r), f.user, f.roles, m, e, u).response
             THEN [g EXCEPT !.pc = "resolved", !.reaction = e, !.responder = u,
                            !.outcome = IF e = NO_EMOJI THEN "cancel" ELSE "accept",
                            !.resolved = Append(@, <<e, u>>)]
             ELSE g
    ELSE IF m = Prompt(r) /\ f.prompt = "posted"
    THEN [f EXCEPT !.late = {<<e, u>>}]
    ELSE f

\* the removals the checks of the listening matching rounds schedule
ReqRemovals(m, e, u) ==
    {<<m, e, u>> : r \in {q \in ReqSlots :
        Listening(req[q]) /\ request_check(Prompt(q), req[q].user, req[q].roles, m, e, u).remove}}

\* the messages a reaction can be added to
ReactableMsgs ==
    {OTHER_MSG} \cup {Preamble(r) : r \in {q \in ReqSlots : req[q].pc = "preamble"}}
                \cup {Prompt(r) : r \in {q \in ReqSlots : req[q].prompt = "posted"}}
                \cup {ClPrompt(k) : k \in {j \in ClSlots : cl[j].pc \in {"confirm", "dm_prompt"}}}

\* Can u add emoji e to message m: a member reacts once with an emoji, and
\* the bot's reactions are the two it has added itself.  On a prompt whose
\* wait is over the model follows the accept gestures only.
CanReact(m, e, u) ==
    /\ m \in ReactableMsgs
    /\ \A r \in ReqSlots : m = Prompt(r) =>
          /\ <<e, u>> \notin req[r].reactions
          /\ u = BOT => e \in req[r].echo
          /\ ~Listening(req[r]) => e = YES_EMOJI
    /\ u = BOT => \E r \in ReqSlots : m = Prompt(r)
    /\ u # BOT => Quiet

\* A message event reaches the matching flow f in slot r.
ReqMessage(f, r, ch, u, c) ==
    IF f.pc = "question" /\ wait_for_response_check(f, ch, u)
    THEN wait_for_response(f, r, c)
    ELSE f

\* ------------------------------------------------------------- actions
\* bot.on_raw_reaction_add: member reacted to the support or practice pin.
on_raw_reaction_add(r, member, pin) ==
    /\ Quiet
    /\ FreeReq(r)
    /\ member # BOT
    /\ req' = [req EXCEPT ![r] =
          IF pin = "support_pin"
          THEN [ReqIdle EXCEPT !.kind = "ticket_request", !.pc = "preamble",
                               !.user = member, !.chan = SUPPORT,
                               !.sent = <<Preamble(r)>>, !.posted = {Preamble(r)}]
          ELSE post_request([ReqIdle EXCEPT !.kind = "practice_ticket_request",
                                            !.user = member, !.chan = SUPPORT],
                            {config.practice_role_id})]
    /\ logchan' = IF pin = "practice_pin" /\ config.log_channel_id # NONE
                  THEN logchan \cup {<<"Practice Request", r>>} ELSE logchan
    /\ UNCHANGED <<store, watch, archive, config, questions, cl, wiz, tickets, channels, nextId, removals>>

\* ticket_request after ask_questions returned: log the request, post the
\* prompt with its two reactions and wait for a gesture.
ticket_request_post(r) ==
    /\ Quiet
    /\ req[r].pc = "gathered"
    /\ req' = [req EXCEPT ![r] = post_request(@, request_roles(req[r].adult_needed))]
    /\ logchan' = IF config.log_channel_id # NONE
                  THEN logchan \cup {<<"Request", r>>} ELSE logchan
    /\ UNCHANGED <<store, watch, archive, config, questions, cl, wiz, tickets, channels, nextId, removals>>

\* asyncio.TimeoutError of the wait flow r is suspended in.
\* practice_ticket_request passes no timeout to wait_for.
Timeout(r) ==
    /\ Quiet
    /\ \/ req[r].pc \in {"preamble", "question"}
       \/ req[r].pc = "waiting" /\ req[r].kind # "practice_ticket_request"
    /\ req' = [req EXCEPT ![r] =
          IF req[r].pc = "waiting"
          THEN [@ EXCEPT !.pc = "resolved", !.outcome = "timeout"]
          ELSE ask_questions_end(@, "timeout")]
    /\ UNCHANGED <<store, watch, archive, config, questions, cl, wiz, tickets, channels, nextId, removals, logchan>>

\* The flow resumes after its matching wait resolved, with the except
\* clauses of the request falling through instead of returning.
ResumeWithoutReturn(r) ==
    /\ Quiet
    /\ req[r].pc = "resolved"
    /\ req' = [req EXCEPT ![r] =
          [@ EXCEPT !.pc = "cleaned", !.prompt = "deleted", !.reactions = {}, !.late = {}]]
    /\ UNCHANGED <<store, watch, archive, config, questions, cl, wiz, tickets, channels, nextId, removals, logchan>>

\* The flow resumes after its matching wait resolved.
\*   ticket_request, practice_ticket_request: on accept the finally clause
\*   deletes the prompt; on cancel or timeout the except clause sends the
\*   ttl message and sleeps, and the finally clause runs after it.
\*   swap, review: the except clause returns, the finally clause deletes the
\*   prompt, Ticket.execute commits.
resume_resolved(r) ==
    /\ Quiet
    /\ req[r].pc = "resolved"
    /\ req' = [req EXCEPT ![r] =
          IF req[r].outcome = "accept"
          THEN [@ EXCEPT !.pc = "cleaned", !.prompt = "deleted", !.reactions = {}, !.late = {}]
          ELSE IF req[r].kind \in {"swap", "review"}
          THEN [@ EXCEPT !.pc = "done", !.prompt = "deleted", !.reactions = {}, !.late = {}]
          ELSE [@ EXCEPT !.pc = "ttl_sleep",
                         !.notice = IF req[r].outcome = "cancel"
                                    THEN "User cancelled the ticket."
                                    ELSE "It took longer to get a responder."]]
    /\ UNCHANGED <<store, watch, archive, config, questions, cl, wiz, tickets, channels, nextId, removals, logchan>>

\* send_ttl_message wakes up and the request returns with no finally clause.
SendTtlKeepsPrompt(r) ==
    /\ Quiet
    /\ req[r].pc = "ttl_sleep"
    /\ req' = [req EXCEPT ![r].pc = "done"]
    /\ UNCHANGED <<store, watch, archive, config, questions, cl, wiz, tickets, channels, nextId, removals, logchan>>

\* send_ttl_message wakes up and deletes its message; the finally clause of
\* the request deletes the prompt.
send_ttl_message_done(r) ==
    /\ Quiet
    /\ req[r].pc = "ttl_sleep"
    /\ req' = [req EXCEPT ![r].pc = "done", ![r].prompt = "deleted", ![r].reactions = {}, ![r].late = {}]
    /\ UNCHANGED <<store, watch, archive, config, questions, cl, wiz, tickets, channels, nextId, removals, logchan>>

\* ------------------------------------------------------ rows and channels
\* Query.first() in the place of Query.one(): None when nothing matches, the
\* first row when several do
FirstOrNone(found) ==
    IF found = {} THEN [raised |-> NONE, id |-> 0]
    ELSE [raised |-> NONE, id |-> CHOOSE t \in found : TRUE]

\* Query.one(): the single row of the result, or the exception
one(found) ==
    IF found = {} THEN [raised |-> "NoResultFound", id |-> 0]
    ELSE IF Cardinality(found) > 1 THEN [raised |-> "MultipleResultsFound", id |-> 0]
    ELSE [raised |-> NONE, id |-> CHOOSE t \in found : TRUE]

\* tickdb.query.get_ticket(session, guild_id, user_id=None, channel_id=None):
\* a filter that is None is not applied (NONE, NOCHAN)
get_ticket(guild_id, user_id, channel_id) ==
    one({t \in DOMAIN tickets :
            /\ tickets[t].committed
            /\ tickets[t].guild_id = guild_id
            /\ user_id # NONE => tickets[t].user_id = user_id
            /\ channel_id # NOCHAN => tickets[t].channel_id = channel_id})

\* tickdb.query.get_guild_config(session, guild_id); id is the primary key
get_guild_config(guild_id) == one({g \in guild_configs : g = guild_id})

\* the overwrites of a new channel with the default role left at the `user` preset
NewOverwritesOpen(user, responder) ==
    [p \in {DEFAULT_ROLE, BOT, user, responder} \cup config.overseer_role_ids |->
        IF p \in config.overseer_role_ids THEN "overseer"
        ELSE IF p = BOT THEN "bot"
        ELSE "user"]

\* the overwrites ticket_request and practice_ticket_request create the channel with
new_overwrites(user, responder) ==
    [p \in {DEFAULT_ROLE, BOT, user, responder} \cup config.overseer_role_ids |->
        IF p \in config.overseer_role_ids THEN "overseer"
        ELSE IF p = DEFAULT_ROLE THEN "none"
        ELSE IF p = BOT THEN "bot"
        ELSE "user"]

\* overwrites[p] = preset on a copy of the channel's overwrites
SetOverwrite(ow, p, preset) ==
    [q \in DOMAIN ow \cup {p} |-> IF q = p THEN preset ELSE ow[q]]

\* ticket_request / practice_ticket_request: Ticket(...), session.add, session.flush
\* (request_msg: the roles the stored request message mentions)
ticket_flush(r) ==
    /\ Quiet
    /\ req[r].pc = "cleaned"
    /\ req[r].kind \in {"ticket_request", "practice_ticket_request"}
    /\ tickets' = (nextId.ticket :>
                     [user_id |-> req[r].user, supporter_id |-> req[r].responder,
                      channel_id |-> NOCHAN, committed |-> FALSE, origin |-> r,
                      guild_id |-> GUILD,
                      is_practice |-> req[r].kind = "practice_ticket_request",
                      request_msg |-> req[r].roles])
                  @@ tickets
    /\ nextId' = [nextId EXCEPT !.ticket = @ + 1]
    /\ req' = [req EXCEPT ![r].pc = "flushed", ![r].ticket = nextId.ticket]
    /\ UNCHANGED <<store, watch, archive, config, questions, cl, wiz, channels, removals, logchan>>

\* guild.create_text_channel(name, topic, overwrites, category)
create_text_channel(r) ==
    /\ Quiet
    /\ req[r].pc = "flushed"
    /\ channels' = (Chan(nextId.chan) :> new_overwrites(req[r].user, req[r].responder))
                   @@ channels
    /\ nextId' = [nextId EXCEPT !.chan = @ + 1]
    /\ req' = [req EXCEPT ![r].pc = "created", ![r].chan = Chan(nextId.chan)]
    /\ UNCHANGED <<store, watch, archive, config, questions, cl, wiz, tickets, removals, logchan>>

\* guild.create_text_channel raises (discord.Forbidden, discord.HTTPException):
\* the request ends there; its session, holding the flushed row, is never
\* committed.
create_text_channel_fails(r) ==
    /\ Quiet
    /\ req[r].pc = "flushed"
    /\ req' = [req EXCEPT ![r].pc = "done", ![r].outcome = "HTTPException"]
    /\ UNCHANGED <<store, watch, archive, config, questions, cl, wiz, tickets, channels, nextId, removals, logchan>>

\* ticket.channel_id = <the first channel of the guild>; session.commit()
TicketCommitFirstChannel(r) ==
    /\ Quiet
    /\ req[r].pc = "created"
    /\ tickets' = [tickets EXCEPT ![req[r].ticket].channel_id = Chan(1),
                                  ![req[r].ticket].committed = TRUE]
    /\ logchan' = IF config.log_channel_id # NONE
                  THEN logchan \cup {<<IF req[r].kind = "ticket_request"
                                        THEN "Created" ELSE "Practice Created", r>>}
                  ELSE logchan
    /\ req' = [req EXCEPT ![r].pc = "done"]
    /\ UNCHANGED <<store, watch, archive, config, questions, cl, wiz, channels, nextId, removals>>

\* ticket.channel_id = ticket_channel.id; session.commit(); then the log
\* entry, the welcome message and the pins
ticket_commit(r) ==
    /\ Quiet
    /\ req[r].pc = "created"
    /\ tickets' = [tickets EXCEPT ![req[r].ticket].channel_id = req[r].chan,
                                  ![req[r].ticket].committed = TRUE]
    /\ logchan' = IF config.log_channel_id # NONE
                  THEN logchan \cup {<<IF req[r].kind = "ticket_request"
                                        THEN "Created" ELSE "Practice Created", r>>}
                  ELSE logchan
    /\ req' = [req EXCEPT ![r].pc = "done"]
    /\ UNCHANGED <<store, watch, archive, config, questions, cl, wiz, channels, nextId, removals>>

\* Ticket.execute with the lookup of the GuildConfig left out
AlwaysConfigured == TRUE

\* Ticket.execute: get_guild_config(session, guild.id) returned a row; when
\* it raises, execute raises InvalidCommandArgs("Tickets not configured. ...")
tickets_configured == get_guild_config(GUILD).raised = NONE

NOT_CONFIGURED == "Tickets not configured."

\* Ticket.execute with subcmd swap or review, issued in channel ch: up to
\* the wait of the matching round, or rejected with InvalidCommandArgs.
execute_match(r, ch, subcmd) ==
    /\ Quiet
    /\ FreeReq(r)
    /\ ch \in DOMAIN channels \cup {SUPPORT}
    /\ LET got == get_ticket(GUILD, NONE, ch)
           t == got.id
           ok == got.raised = NONE /\ (subcmd = "review" => tickets[t].is_practice)
       IN  req' = [req EXCEPT ![r] =
             IF ~tickets_configured
             THEN [ReqIdle EXCEPT !.kind = subcmd, !.pc = "done", !.chan = ch,
                                  !.outcome = "InvalidCommandArgs", !.notice = NOT_CONFIGURED]
             ELSE IF ~ok
             THEN [ReqIdle EXCEPT !.kind = subcmd, !.pc = "done", !.chan = ch,
                                  !.outcome = "InvalidCommandArgs"]
             ELSE post_request([ReqIdle EXCEPT !.kind = subcmd, !.chan = ch,
                                               !.ticket = t,
                                               !.user = tickets[t].user_id,
                                               !.old_responder = tickets[t].supporter_id],
                               IF subcmd = "swap"
                               THEN {config.adult_role_id, config.role_id} \ {NONE}
                               ELSE {config.practice_role_id})]
    /\ UNCHANGED <<store, watch, archive, config, questions, cl, wiz, tickets, channels, nextId, removals, logchan>>

\* Ticket.swap / Ticket.review after the prompt was deleted: the overwrites
\* are replaced by channel.edit, swap stores the new supporter, the log
\* entry is sent and Ticket.execute commits.
swap_apply(r) ==
    /\ Quiet
    /\ req[r].pc = "cleaned"
    /\ req[r].kind \in {"swap", "review"}
    /\ IF req[r].chan \notin DOMAIN channels \/ req[r].ticket \notin DOMAIN tickets
       THEN \* channel.edit raises discord.NotFound: nothing is committed
            /\ req' = [req EXCEPT ![r].pc = "done", ![r].outcome = "NotFound"]
            /\ UNCHANGED <<tickets, channels, logchan>>
       ELSE /\ channels' = [channels EXCEPT ![req[r].chan] =
                  IF req[r].kind = "swap"
                  THEN SetOverwrite(SetOverwrite(@, req[r].old_responder, "none"),
                                    req[r].responder, "user")
                  ELSE SetOverwrite(@, req[r].responder, "user")]
            /\ tickets' = IF req[r].kind = "swap"
                          THEN [tickets EXCEPT ![req[r].ticket].supporter_id = req[r].responder]
                          ELSE tickets
            /\ logchan' = IF config.log_channel_id # NONE
                          THEN logchan \cup {<<IF req[r].kind = "swap" THEN "Swap" ELSE "Reivew", r>>}
                          ELSE logchan
            /\ req' = [req EXCEPT ![r].pc = "done"]
    /\ UNCHANGED <<store, watch, archive, config, questions, cl, wiz, nextId, removals>>

\* ----------------------------------------------------- Ticket.close steps
\* Ticket.close with the lookup of the Ticket row left out
ExecuteCloseNoLookup(k, ch, author) ==
    /\ Quiet
    /\ FreeCl(k)
    /\ cl' = [cl EXCEPT ![k] =
          [ClIdle EXCEPT !.chan = ch, !.author = author, !.pc = "confirm",
                         !.after = {j \in ClSlots : cl[j].pc = "done"}]]
    /\ UNCHANGED <<store, watch, archive, config, questions, req, wiz, tickets, channels, nextId, removals, logchan>>

\* Ticket.execute with subcmd close, issued by author in channel ch: up to
\* the first wait_for_user_reaction, or rejected with InvalidCommandArgs.
execute_close(k, ch, author) ==
    /\ Quiet
    /\ FreeCl(k)
    /\ LET got == get_ticket(GUILD, NONE, ch)
           f == [ClIdle EXCEPT !.chan = ch, !.author = author,
                               !.after = {j \in ClSlots : cl[j].pc = "done"}]
       IN  cl' = [cl EXCEPT ![k] =
             IF ~tickets_configured
             THEN [f EXCEPT !.pc = "done", !.outcome = "InvalidCommandArgs",
                            !.notice = NOT_CONFIGURED]
             ELSE IF got.raised # NONE
             THEN [f EXCEPT !.pc = "done", !.outcome = "InvalidCommandArgs",
                            !.notice = "I can only close within ticket channels."]
             ELSE IF ch \notin DOMAIN channels
             THEN [f EXCEPT !.pc = "done", !.outcome = "NotFound"]
             ELSE [f EXCEPT !.pc = "confirm", !.ticket = got.id]]
    /\ UNCHANGED <<store, watch, archive, config, questions, req, wiz, tickets, channels, nextId, removals, logchan>>

\* asyncio.TimeoutError of the wait_for_user_reaction flow k is suspended in
TimeoutClose(k) ==
    /\ Quiet
    /\ cl[k].pc \in {"confirm", "dm_prompt"}
    /\ cl[k].first # "forced"
    /\ cl' = [cl EXCEPT ![k] =
          IF cl[k].pc = "confirm"
          THEN close_cancelled([@ EXCEPT !.first = "timeout"])
          ELSE close_cancelled([@ EXCEPT !.second = "timeout"])]
    /\ UNCHANGED <<store, watch, archive, config, questions, req, wiz, tickets, channels, nextId, removals, logchan>>

\* After the first confirmation: create_log writes the transcript, the
\* 'Close' entry with the transcript goes to log_channel.send, and the second
\* prompt is posted.
close_log(k) ==
    /\ Quiet
    /\ cl[k].pc = "confirmed"
    /\ IF cl[k].chan \in DOMAIN channels
       THEN /\ cl' = [cl EXCEPT ![k].pc = "dm_prompt", ![k].transcript = TRUE]
            /\ logchan' = log_channel_send(logchan, <<"Close", k>>)
            /\ latest' = (cl[k].chan :> [age |-> 0, author |-> BOT]) @@ latest
       ELSE /\ cl' = [cl EXCEPT ![k].pc = "done", ![k].outcome = "NotFound"]
            /\ UNCHANGED <<logchan, latest>>
    /\ UNCHANGED <<store, watchdog, archive, config, questions, req, wiz, tickets, channels, nextId, removals>>

\* The author asked for the DM: guild.get_member(ticket.user_id) and
\* user.send(...); dm is what becomes of it.
close_dm(k, dm) ==
    /\ Quiet
    /\ cl[k].pc = "dm"
    /\ cl' = [cl EXCEPT ![k] = after_dm(@, dm)]
    /\ UNCHANGED <<store, watch, archive, config, questions, req, wiz, tickets, channels, nextId, removals, logchan>>

\* self.msg.channel.delete(reason=reason)
close_delete_channel(k) ==
    /\ Quiet
    /\ cl[k].pc = "deleting"
    /\ IF cl[k].chan \in DOMAIN channels
       THEN /\ channels' = [c \in DOMAIN channels \ {cl[k].chan} |-> channels[c]]
            /\ cl' = [cl EXCEPT ![k].pc = "chan_deleted", ![k].deleted = @ \cup {"channel"}]
       ELSE /\ cl' = [cl EXCEPT ![k].pc = "done", ![k].outcome = "NotFound"]
            /\ UNCHANGED channels
    /\ UNCHANGED <<store, watch, archive, config, questions, req, wiz, tickets, nextId, removals, logchan>>

\* session.commit() of Ticket.execute after a close, with the
\* session.delete(ticket) left out
CloseCommitKeepsRow(k) ==
    /\ Quiet
    /\ cl[k].pc = "chan_deleted"
    /\ cl' = [cl EXCEPT ![k].pc = "done", ![k].outcome = "closed"]
    /\ UNCHANGED <<store, watch, archive, config, questions, req, wiz, tickets, channels, nextId, removals, logchan>>

\* self.session.delete(ticket), and the session.commit() of Ticket.execute
close_commit(k) ==
    /\ Quiet
    /\ cl[k].pc = "chan_deleted"
    /\ IF cl[k].ticket \in DOMAIN tickets
       THEN /\ tickets' = [t \in DOMAIN tickets \ {cl[k].ticket} |-> tickets[t]]
            /\ cl' = [cl EXCEPT ![k].pc = "done", ![k].outcome = "closed",
                                ![k].deleted = @ \cup {"row"}]
       ELSE /\ cl' = [cl EXCEPT ![k].pc = "done", ![k].outcome = "StaleDataError"]
            /\ UNCHANGED tickets
    /\ UNCHANGED <<store, watch, archive, config, questions, req, wiz, channels, nextId, removals, logchan>>

\* Ticket.execute with subcmd rename, issued in channel ch: in a channel
\* without Ticket row the lookup raises and rename raises InvalidCommandArgs;
\* otherwise the channel gets its new name (its id and its row are not
\* touched), the 'Rename' entry is sent to the log channel and
\* Ticket.execute commits.
rename(ch) ==
    /\ Quiet
    /\ tickets_configured
    /\ ch \in DOMAIN channels \cup {SUPPORT}
    /\ IF get_ticket(GUILD, NONE, ch).raised # NONE
       THEN /\ result' = [call |-> "rename", guild_id |-> GUILD, user_id |-> NONE,
                          channel_id |-> ch, raised |-> "InvalidCommandArgs",
                          ticket |-> 0, guild |-> NONE]
            /\ result' # result
            /\ UNCHANGED <<guild_configs, ticket_configs, setup, texts, logchan>>
       ELSE /\ logchan' = log_channel_send(logchan, <<"Rename", ch>>)
            /\ UNCHANGED store
    /\ UNCHANGED <<watch, archive, config, questions, req, cl, wiz, tickets, channels, nextId, removals>>

\* Admin.execute with the GuildConfig looked up and created before the
\* roles of the author are tested
GuildConfigBeforePerms(author) == get_guild_config(GUILD).raised # NONE

\* Admin.execute with the except clause of the lookup left out
GuildConfigNeverAdded(author) == FALSE

\* Admin.execute: does it add and commit a GuildConfig row for the guild
\* (the author passed the test of ADMIN_ROLE, get_guild_config raised)
guild_config_added(author) ==
    /\ ADMIN_ROLE \in member_roles(author)
    /\ get_guild_config(GUILD).raised # NONE

\* Admin.execute with subcmd kind, issued by author in the support channel:
\* InvalidPerms without the supervisor role; otherwise the GuildConfig row is
\* created if the guild has none (created, the case execute logs), and the
\* subcommand runs up to the first wait of the wizard (ticket_setup has added
\* and flushed its TicketConfig).
execute_admin(w, kind, author) ==
    /\ Quiet
    /\ FreeWiz(w)
    /\ wiz' = [wiz EXCEPT ![w] =
          IF ADMIN_ROLE \notin member_roles(author)
          THEN [WizIdle EXCEPT !.kind = kind, !.pc = "done", !.author = author,
                               !.chan = SUPPORT, !.outcome = "InvalidPerms"]
          ELSE wizard_next([WizIdle EXCEPT !.kind = kind, !.pc = "wait", !.author = author,
                                           !.chan = SUPPORT,
                                           !.created = guild_config_added(author)])]
    /\ guild_configs' = IF guild_config_added(author) THEN guild_configs \cup {GUILD}
                        ELSE guild_configs
    /\ UNCHANGED <<ticket_configs, setup, texts, result, watch, archive, config, questions, req, cl,
                   tickets, channels, nextId, removals, logchan>>

\* the scheduled c_react.remove(c_user) runs: the reaction leaves the message
run_removal(x) ==
    /\ x \in removals
    /\ removals' = removals \ {x}
    /\ req' = [r \in ReqSlots |->
                 IF x[1] = Prompt(r) THEN [req[r] EXCEPT !.reactions = @ \ {<<x[2], x[3]>>}]
                 ELSE req[r]]
    /\ UNCHANGED <<store, watch, archive, config, questions, cl, wiz, tickets, channels, nextId, logchan>>

\* A reaction_add event: u added emoji e to message m.  Every registered
\* waiter checks it.
ReactionAdd(m, e, u) ==
    /\ CanReact(m, e, u)
    /\ req' = [r \in ReqSlots |-> ReqReaction(req[r], r, m, e, u)]
    /\ cl' = [k \in ClSlots |-> ClReaction(cl[k], e, u)]
    /\ wiz' = [w \in WizSlots |-> WizReaction(wiz[w], e, u)]
    /\ removals' = removals \cup ReqRemovals(m, e, u)
    /\ UNCHANGED <<store, watch, archive, config, questions, tickets, channels, nextId, logchan>>

\* A message event: member u sent content c in channel ch.
MessageEvent(ch, u, c) ==
    /\ Quiet
    /\ req' = [r \in ReqSlots |-> ReqMessage(req[r], r, ch, u, c)]
    /\ wiz' = [w \in WizSlots |-> WizMessage(wiz[w], ch, u, c)]
    /\ <<req', wiz'>> # <<req, wiz>>
    /\ \A r \in ReqSlots : req'[r].retries <= MaxRetries
    /\ \A w \in WizSlots : wiz'[w].reasks <= MaxReask
    /\ UNCHANGED <<store, watch, archive, config, questions, cl, tickets, channels, nextId, removals, logchan>>

\* ------------------------------------------------------------ create_log
\* The messages channel.history yields: an author and a content.
Bodies == {"hi", "essay"}

\* len(msg.content): a short line, and a message of the platform's maximal length
BodyLen(c) == IF c = "essay" THEN 4000 ELSE 2

Messages == [author : {"ann", "sam"}, content : Bodies]

\* TRANSCRIPT_ENTRY.format(date=..., author=msg.author.name, id=msg.author.id, msg=msg.content)
TRANSCRIPT_ENTRY(m) == [author |-> m.author, id |-> <<"id", m.author>>, msg |-> m.content]

\* len() of one formatted entry: the date, the name, the id and the rule
\* around the content
EntryLen(x) == 70 + BodyLen(x.msg)

\* len(to_flush)
RECURSIVE FlushLen(_)
FlushLen(buf) == IF buf = <<>> THEN 0 ELSE EntryLen(Head(buf)) + FlushLen(Tail(buf))

TRANSCRIPT_HEADER == <<"header">>

ArchiveIdle == [pc |-> "idle", history |-> <<>>, i |-> 0, to_flush |-> <<>>, fout |-> <<>>]

\* the loop body of create_log with the buffer cleared but not written
AppendEntryFlushLost(a, m) ==
    LET buf == Append(a.to_flush, TRANSCRIPT_ENTRY(m))
    IN  IF FlushLen(buf) > FLUSH_LEN
        THEN [a EXCEPT !.to_flush = <<>>, !.i = @ + 1]
        ELSE [a EXCEPT !.to_flush = buf, !.i = @ + 1]

\* the loop body of create_log: to_flush += entry; once it is longer than
\* 10000 characters it is written to the file and emptied
append_entry(a, m) ==
    LET buf == Append(a.to_flush, TRANSCRIPT_ENTRY(m))
    IN  IF FlushLen(buf) > FLUSH_LEN
        THEN [a EXCEPT !.fout = Append(@, buf), !.to_flush = <<>>, !.i = @ + 1]
        ELSE [a EXCEPT !.to_flush = buf, !.i = @ + 1]

\* create_log opens the file and writes the header
create_log_open ==
    /\ archive.pc = "idle"
    /\ archive.history # <<>>
    /\ archive' = [archive EXCEPT !.pc = "history", !.i = 1, !.fout = <<TRANSCRIPT_HEADER>>]
    /\ UNCHANGED <<store, watch, config, questions, req, cl, wiz, tickets, channels, nextId, removals, logchan>>

\* async for msg in last_msg.channel.history(limit=None, oldest_first=True)
create_log_entry ==
    /\ archive.pc = "history"
    /\ archive.i <= Len(archive.history)
    /\ archive' = append_entry(archive, archive.history[archive.i])
    /\ UNCHANGED <<store, watch, config, questions, req, cl, wiz, tickets, channels, nextId, removals, logchan>>

\* the history is exhausted: what is left in the buffer is written and the
\* file is closed
create_log_close ==
    /\ archive.pc = "history"
    /\ archive.i > Len(archive.history)
    /\ archive' = [archive EXCEPT !.pc = "closed", !.to_flush = <<>>,
                                  !.fout = IF archive.to_flush # <<>>
                                           THEN Append(@, archive.to_flush) ELSE @]
    /\ UNCHANGED <<store, watch, config, questions, req, cl, wiz, tickets, channels, nextId, removals, logchan>>

\* ------------------------------------------------------- tickdb: text rows
\* The values a caller can assign to TicketConfigText.text or TicketText.text:
\* what Python's truth test and len() make of them.
\* len() of a value that has no length
NOLEN == 0 - 1

TextValues ==
    {[type |-> "str", len |-> n, truthy |-> n > 0] : n \in {0, 1, LEN_TEXT, LEN_TEXT + 1}}
    \cup {[type |-> "int", len |-> NOLEN, truthy |-> b] : b \in BOOLEAN}
    \cup {[type |-> "NoneType", len |-> NOLEN, truthy |-> FALSE]}
    \cup {[type |-> "bytes", len |-> n, truthy |-> n > 0] : n \in {0, 1, LEN_TEXT + 1}}

\* validate_text of TicketConfigText and of TicketText (the two are the same
\* code): what the validator raises, NONE when it returns the value
validate_text(value) ==
    IF ~value.truthy THEN "ValueError"                \* not value
    ELSE IF value.len = NOLEN THEN "ValueError"        \* len() raised TypeError
    ELSE IF value.len > LEN_TEXT THEN "ValueError"
    ELSE NONE

\* no assignment was made yet
NoValue == [type |-> "none", len |-> NOLEN, truthy |-> FALSE]

TextsIdle == [rows |-> <<>>, value |-> NoValue, raised |-> NONE]

\* cls(..., text=value) and session.add(found): the validator runs at the
\* assignment, and nothing is added when it raises
add_text(cls, value) ==
    /\ Len(texts.rows) < MaxRows \/ validate_text(value) # NONE
    /\ texts' = [rows |-> IF validate_text(value) = NONE
                          THEN Append(texts.rows, [cls |-> cls, text |-> value])
                          ELSE texts.rows,
                 value |-> value,
                 raised |-> validate_text(value)]
    /\ texts' # texts
    /\ UNCHANGED <<guild_configs, ticket_configs, setup, result, watch, archive, config, questions,
                   req, cl, wiz, tickets, channels, nextId, removals, logchan>>

\* tickdb.query.add_ticket_question(session, ticket_config, text)
add_ticket_question(value) == add_text("TicketConfigText", value)

\* tickdb.query.add_ticket_response(session, ticket, text)
add_ticket_response(value) == add_text("TicketText", value)

\* session.delete of the oldest row
delete_text ==
    /\ texts.rows # <<>>
    /\ texts' = [texts EXCEPT !.rows = Tail(@), !.value = NoValue, !.raised = NONE]
    /\ UNCHANGED <<guild_configs, ticket_configs, setup, result, watch, archive, config, questions,
                   req, cl, wiz, tickets, channels, nextId, removals, logchan>>

\* ------------------------------------------------ tickdb: TicketConfig rows
\* tick.util.NOT_SET, the column default of name and prefix; the column
\* default of emoji_id is 0
NOT_SET == "NOT_SET"

Guilds == {GUILD, "other"}
FlowNames == {"support", "practice"}
Prefixes == {"sup", "prac"}
EmojiIds == {11, 12}

SetupSlots == 1..MaxSetup

SetupIdle ==
    [pc |-> "idle", id |-> 0, guild_id |-> NONE, prefix |-> NOT_SET, emoji_id |-> 0,
     outcome |-> NONE]

\* the slot a new ticket_setup is started in
FreeSetup(s) == setup[s].pc = "idle" /\ \A j \in SetupSlots : j < s => setup[j].pc # "idle"

\* the table with the constraints on emoji_id and prefix left out
UniqueNameOnly(rows, id, row) ==
    \A j \in DOMAIN rows \ {id} :
        rows[j].guild_id = row.guild_id => rows[j].name # row.name

\* __table_args__ of TicketConfig: does the table take row under id beside
\* its other rows (the INSERT or UPDATE raises IntegrityError if not)
unique_constraints(rows, id, row) ==
    \A j \in DOMAIN rows \ {id} :
        rows[j].guild_id = row.guild_id =>
            /\ rows[j].name # row.name
            /\ rows[j].emoji_id # row.emoji_id
            /\ rows[j].prefix # row.prefix

\* Admin.ticket_setup up to its first prompt: TicketConfig(guild_id, name),
\* session.add, session.flush.  The INSERT applies the column defaults.
ticket_setup(s, g, name) ==
    /\ FreeSetup(s)
    /\ g \in guild_configs
    /\ LET id == 1 + Cardinality({j \in SetupSlots : setup[j].id # 0})
           row == [guild_id |-> g, name |-> name, prefix |-> NOT_SET, emoji_id |-> 0]
       IN  IF unique_constraints(ticket_configs, id, row)
           THEN /\ ticket_configs' = (id :> row) @@ ticket_configs
                /\ setup' = [setup EXCEPT ![s] = [SetupIdle EXCEPT !.pc = "prefix", !.id = id,
                                                                   !.guild_id = g]]
           ELSE /\ setup' = [setup EXCEPT ![s] = [SetupIdle EXCEPT !.pc = "done", !.guild_id = g,
                                                                   !.outcome = "IntegrityError"]]
                /\ UNCHANGED ticket_configs
    /\ UNCHANGED <<guild_configs, texts, result, watch, archive, config, questions,
                   req, cl, wiz, tickets, channels, nextId, removals, logchan>>

\* the reply to the prefix prompt: STOP_MSG returns, and Admin.execute
\* commits the row as it was flushed; any other reply is assigned
ticket_setup_prefix(s, c) ==
    /\ setup[s].pc = "prefix"
    /\ setup' = [setup EXCEPT ![s] =
          IF c = STOP_MSG THEN [@ EXCEPT !.pc = "done", !.outcome = "cancelled"]
          ELSE [@ EXCEPT !.pc = "emoji", !.prefix = c]]
    /\ UNCHANGED <<guild_configs, ticket_configs, texts, result, watch, archive, config, questions,
                   req, cl, wiz, tickets, channels, nextId, removals, logchan>>

\* the author's reaction to the emoji prompt
ticket_setup_emoji(s, e) ==
    /\ setup[s].pc = "emoji"
    /\ setup' = [setup EXCEPT ![s].pc = "rest", ![s].emoji_id = e]
    /\ UNCHANGED <<guild_configs, ticket_configs, texts, result, watch, archive, config, questions,
                   req, cl, wiz, tickets, channels, nextId, removals, logchan>>

\* the rest of the wizard (STOP_MSG at the timeout prompt, or the roles and
\* the end), then session.commit() of Admin.execute: the UPDATE of the
\* assigned prefix and emoji_id
ticket_setup_commit(s) ==
    /\ setup[s].pc = "rest"
    /\ LET id == setup[s].id
           row == [ticket_configs[id] EXCEPT !.prefix = setup[s].prefix,
                                             !.emoji_id = setup[s].emoji_id]
       IN  IF unique_constraints(ticket_configs, id, row)
           THEN /\ ticket_configs' = [ticket_configs EXCEPT ![id] = row]
                /\ setup' = [setup EXCEPT ![s].pc = "done", ![s].outcome = "completed"]
           ELSE /\ setup' = [setup EXCEPT ![s].pc = "done", ![s].outcome = "IntegrityError"]
                /\ UNCHANGED ticket_configs
    /\ UNCHANGED <<guild_configs, texts, result, watch, archive, config, questions,
                   req, cl, wiz, tickets, channels, nextId, removals, logchan>>

\* ------------------------------------------------------- tickdb: queries
\* no query was made yet
ResultIdle ==
    [call |-> NONE, guild_id |-> NONE, user_id |-> NONE, channel_id |-> NOCHAN,
     raised |-> NONE, ticket |-> 0, guild |-> NONE]

\* a caller runs get_ticket with the filters it likes
query_ticket(g, u, ch) ==
    /\ LET got == get_ticket(g, u, ch)
       IN  result' = [call |-> "get_ticket", guild_id |-> g, user_id |-> u, channel_id |-> ch,
                      raised |-> got.raised, ticket |-> got.id, guild |-> NONE]
    /\ result' # result
    /\ UNCHANGED <<guild_configs, ticket_configs, setup, texts, watch, archive, config, questions,
                   req, cl, wiz, tickets, channels, nextId, removals, logchan>>

\* a caller runs get_guild_config
query_guild_config(g) ==
    /\ LET got == get_guild_config(g)
       IN  result' = [call |-> "get_guild_config", guild_id |-> g, user_id |-> NONE,
                      channel_id |-> NOCHAN, raised |-> got.raised, ticket |-> 0,
                      guild |-> IF got.raised = NONE THEN got.id ELSE NONE]
    /\ result' # result
    /\ UNCHANGED <<guild_configs, ticket_configs, setup, texts, watch, archive, config, questions,
                   req, cl, wiz, tickets, channels, nextId, removals, logchan>>

\* --------------------------------------------------- inactivity watchdog
\* The watchdog is not part of src/: schema.py declares the threshold it
\* reads (TicketConfig.timeout, in seconds) and ticket_setup stores it.  The
\* task is modelled from its description: it scans the tickets, inspects the
\* most recent message of each backing channel and forces the close of a
\* ticket whose message is older than the threshold and was not written by
\* the bot; the forced close skips the first confirmation.
WatchdogIdle == [pc |-> "sleeping", todo |-> {}, timeout |-> DEFAULT_TICKET_TIMEOUT]

\* the thresholds ticket_setup can have stored
Timeouts == {HOUR, DEFAULT_TICKET_TIMEOUT}

\* the test of the most recent message, with the author left out
WatchdogIgnoresAuthor(msg, timeout) == msg.age > timeout

\* the watchdog's test of the most recent message of a channel
watchdog_inactive(msg, timeout) == msg.age > timeout /\ msg.author # BOT

\* a forced close runs inside the watchdog task, which waits for it
ForcedRunning == \E k \in ClSlots : cl[k].first = "forced" /\ cl[k].pc # "done"

\* an hour passes: every most recent message grows older
Tick ==
    /\ \E c \in DOMAIN latest : latest[c].age < MaxAge * HOUR
    /\ latest' = [c \in DOMAIN latest |->
                     [latest[c] EXCEPT !.age = IF @ < MaxAge * HOUR THEN @ + HOUR ELSE @]]
    /\ UNCHANGED <<store, watchdog, archive, config, questions, req, cl, wiz, tickets, channels,
                   nextId, removals, logchan>>

\* u sends a message in the ticket channel ch
Post(ch, u) ==
    /\ ch \in DOMAIN channels
    /\ latest[ch] # [age |-> 0, author |-> u]
    /\ latest' = [latest EXCEPT ![ch] = [age |-> 0, author |-> u]]
    /\ UNCHANGED <<store, watchdog, archive, config, questions, req, cl, wiz, tickets, channels,
                   nextId, removals, logchan>>

\* the watchdog wakes up and starts a scan of all tickets
watchdog_wake ==
    /\ watchdog.pc = "sleeping"
    /\ watchdog' = [watchdog EXCEPT !.pc = "scanning",
                                    !.todo = {t \in DOMAIN tickets : tickets[t].committed}]
    /\ UNCHANGED <<store, latest, archive, config, questions, req, cl, wiz, tickets, channels,
                   nextId, removals, logchan>>

\* the watchdog inspects ticket t: an inactive ticket enters the close at
\* the point behind the first confirmation, in the close slot k
watchdog_inspect(t, k) ==
    /\ watchdog.pc = "scanning"
    /\ t \in watchdog.todo
    /\ ~ForcedRunning
    /\ watchdog' = [watchdog EXCEPT !.todo = @ \ {t}]
    /\ IF /\ t \in DOMAIN tickets
          /\ tickets[t].channel_id \in DOMAIN channels
          /\ watchdog_inactive(latest[tickets[t].channel_id], watchdog.timeout)
       THEN /\ FreeCl(k)
            /\ cl' = [cl EXCEPT ![k] =
                  [ClIdle EXCEPT !.pc = "confirmed", !.first = "forced", !.ticket = t,
                                 !.chan = tickets[t].channel_id,
                                 !.author = tickets[t].user_id,
                                 !.after = {j \in ClSlots : cl[j].pc = "done"}]]
       ELSE /\ k = 1
            /\ UNCHANGED cl
    /\ UNCHANGED <<store, latest, archive, config, questions, req, wiz, tickets, channels,
                   nextId, removals, logchan>>

\* the DM-log prompt of a forced close times out: the answer defaults to no
TimeoutForced(k) ==
    /\ Quiet
    /\ cl[k].pc = "dm_prompt"
    /\ cl[k].first = "forced"
    /\ cl' = [cl EXCEPT ![k].pc = "deleting", ![k].second = "timeout"]
    /\ UNCHANGED <<store, watch, archive, config, questions, req, wiz, tickets, channels,
                   nextId, removals, logchan>>

\* the scan is over: the watchdog sleeps until it is rescheduled
watchdog_sleep ==
    /\ watchdog.pc = "scanning"
    /\ watchdog.todo = {}
    /\ ~ForcedRunning
    /\ watchdog' = [watchdog EXCEPT !.pc = "sleeping"]
    /\ UNCHANGED <<store, latest, archive, config, questions, req, cl, wiz, tickets, channels,
                   nextId, removals, logchan>>

\* --------------------------------------------------------- specifications
Configs ==
    {[role_id |-> "r_support", adult_role_id |-> "r_adult", practice_role_id |-> "r_practice",
      log_channel_id |-> "log", overseer_role_ids |-> {"r_overseer"}],
     [role_id |-> "r_support", adult_role_id |-> NONE, practice_role_id |-> "r_practice",
      log_channel_id |-> NONE, overseer_role_ids |-> {}]}

\* The database the bot starts with: a ticket and a practice ticket that
\* earlier requests left open, each with its channel.
OpenTickets ==
    [t \in {1, 2} |->
        IF t = 1
        THEN [user_id |-> "ann", supporter_id |-> "sam", channel_id |-> Chan(1), guild_id |-> GUILD,
              committed |-> TRUE, origin |-> 0, is_practice |-> FALSE,
              request_msg |-> {"r_support"}]
        ELSE [user_id |-> "adm", supporter_id |-> "sue", channel_id |-> Chan(2), guild_id |-> GUILD,
              committed |-> TRUE, origin |-> 0, is_practice |-> TRUE,
              request_msg |-> {"r_practice"}]]

\* the tables of tickdb as the flows find them: the guild is configured
InitStore ==
    /\ guild_configs = {GUILD}
    /\ ticket_configs = <<>>
    /\ setup = [s \in SetupSlots |-> SetupIdle]
    /\ texts = TextsIdle
    /\ result = ResultIdle

\* the watchdog asleep, the bot's welcome the last message of each channel
InitWatch ==
    /\ latest = [c \in {Chan(1), Chan(2)} |-> [age |-> 0, author |-> BOT]]
    /\ watchdog = WatchdogIdle

\* no flow is running
InitFlows ==
    /\ config \in Configs
    /\ req = [r \in 1..MaxReq |-> ReqIdle]
    /\ cl = [k \in ClSlots |-> ClIdle]
    /\ wiz = [w \in WizSlots |-> WizIdle]
    /\ removals = {}
    /\ logchan = {}
    /\ archive = ArchiveIdle

InitCommon ==
    /\ InitFlows
    /\ InitStore
    /\ InitWatch

\* The matching rounds: the two requests (no intake questions configured),
\* swap and review.
InitMatch ==
    /\ InitCommon
    /\ questions = <<>>
    /\ tickets = OpenTickets
    /\ channels = [c \in {Chan(1), Chan(2)} |->
                      IF c = Chan(1) THEN new_overwrites("ann", "sam")
                      ELSE new_overwrites("adm", "sue")]
    /\ nextId = [ticket |-> 3, chan |-> 3]

NextMatch ==
    \/ \E r \in ReqSlots, u \in Requesters, pin \in {"support_pin", "practice_pin"} :
          on_raw_reaction_add(r, u, pin)
    \/ \E r \in ReqSlots, ch \in DOMAIN channels \cup {SUPPORT}, sub \in {"swap", "review"} :
          execute_match(r, ch, sub)
    \/ \E m \in ReactableMsgs, e \in Emojis, u \in Actors : ReactionAdd(m, e, u)
    \/ \E r \in ReqSlots : Timeout(r)
    \/ \E r \in ReqSlots : ticket_request_post(r)
    \/ \E r \in ReqSlots : resume_resolved(r)
    \/ \E r \in ReqSlots : send_ttl_message_done(r)
    \/ \E r \in ReqSlots : ticket_flush(r)
    \/ \E r \in ReqSlots : create_text_channel(r)
    \/ \E r \in ReqSlots : ticket_commit(r)
    \/ \E r \in ReqSlots : swap_apply(r)
    \/ \E x \in removals : run_removal(x)

SpecMatch == InitMatch /\ [][NextMatch]_vars

\* The matching rounds as the requester ann, the supporter sam and the bot
\* drive them.
PromptActors == {"ann", "sam", BOT}

NextPrompt ==
    \/ \E r \in ReqSlots, pin \in {"support_pin", "practice_pin"} :
          on_raw_reaction_add(r, "ann", pin)
    \/ \E r \in ReqSlots, ch \in DOMAIN channels, sub \in {"swap", "review"} :
          execute_match(r, ch, sub)
    \/ \E m \in ReactableMsgs, e \in Emojis, u \in PromptActors : ReactionAdd(m, e, u)
    \/ \E r \in ReqSlots : Timeout(r)
    \/ \E r \in ReqSlots : ticket_request_post(r)
    \/ \E r \in ReqSlots : resume_resolved(r)
    \/ \E r \in ReqSlots : send_ttl_message_done(r)
    \/ \E r \in ReqSlots : ticket_flush(r)
    \/ \E r \in ReqSlots : create_text_channel(r)
    \/ \E r \in ReqSlots : ticket_commit(r)
    \/ \E r \in ReqSlots : swap_apply(r)
    \/ \E x \in removals : run_removal(x)

\* A step of matching flow r that needs no member: its timer expires, or the
\* flow is resumed after its wait resolved or its sleep ended.
FlowStep(r) ==
    \/ Timeout(r)
    \/ ticket_request_post(r)
    \/ resume_resolved(r)
    \/ send_ttl_message_done(r)
    \/ ticket_flush(r)
    \/ create_text_channel(r)
    \/ ticket_commit(r)
    \/ swap_apply(r)

\* The event loop runs every task that is ready: a flow that can take a step
\* takes it, a scheduled removal is run, and the gateway delivers the events
\* of the bot's own reactions.  Nothing obliges a member to react or to write.
FairPrompt ==
    /\ SF_vars(\E r \in ReqSlots : FlowStep(r))
    /\ WF_vars(\E x \in removals : run_removal(x))
    /\ WF_vars(\E r \in ReqSlots, e \in Emojis : ReactionAdd(Prompt(r), e, BOT))

SpecPrompt == InitMatch /\ [][NextPrompt]_vars /\ FairPrompt

\* The intake dialog: ticket_request with two intake questions configured.
InitIntake ==
    /\ InitCommon
    /\ questions = <<"q1", "q2">>
    /\ tickets = OpenTickets
    /\ channels = [c \in {Chan(1), Chan(2)} |->
                      IF c = Chan(1) THEN new_overwrites("ann", "sam")
                      ELSE new_overwrites("adm", "sue")]
    /\ nextId = [ticket |-> 3, chan |-> 3]

\* the requester, a supporter and the bot
IntakeActors == {"ann", "sam", BOT}

NextIntake ==
    \/ \E r \in ReqSlots : on_raw_reaction_add(r, "ann", "support_pin")
    \/ \E ch \in {SUPPORT, Chan(1)}, u \in IntakeActors, c \in Contents : MessageEvent(ch, u, c)
    \/ \E m \in ReactableMsgs, e \in Emojis, u \in IntakeActors : ReactionAdd(m, e, u)
    \/ \E r \in ReqSlots : Timeout(r)
    \/ \E r \in ReqSlots : ticket_request_post(r)
    \/ \E r \in ReqSlots : resume_resolved(r)
    \/ \E r \in ReqSlots : send_ttl_message_done(r)
    \/ \E r \in ReqSlots : ticket_flush(r)
    \/ \E r \in ReqSlots : create_text_channel(r)
    \/ \E r \in ReqSlots : ticket_commit(r)
    \/ \E x \in removals : run_removal(x)

SpecIntake == InitIntake /\ [][NextIntake]_vars

\* Ticket.close on the open tickets.
CloseAuthors == {"ann", "sam"}

NextClose ==
    \/ \E k \in ClSlots, ch \in {Chan(1), SUPPORT}, u \in CloseAuthors :
          execute_close(k, ch, u)
    \/ \E m \in ReactableMsgs, e \in Emojis, u \in Actors : ReactionAdd(m, e, u)
    \/ \E k \in ClSlots : TimeoutClose(k)
    \/ \E k \in ClSlots : close_log(k)
    \/ \E k \in ClSlots, dm \in {"sent", "forbidden", "absent"} : close_dm(k, dm)
    \/ \E k \in ClSlots : close_delete_channel(k)
    \/ \E k \in ClSlots : close_commit(k)

SpecClose == InitMatch /\ [][NextClose]_vars

\* The admin wizards.
NextWizard ==
    \/ \E w \in WizSlots, kind \in {"pin", "guild_setup", "ticket_setup"}, u \in Requesters :
          execute_admin(w, kind, u)
    \/ \E ch \in {SUPPORT, Chan(1)}, u \in Members, c \in WizContents : MessageEvent(ch, u, c)
    \/ \E m \in ReactableMsgs, e \in Emojis, u \in Actors : ReactionAdd(m, e, u)

SpecWizard == InitMatch /\ [][NextWizard]_vars

\* The life of tickets: practice requests, swaps, renames and closes as the
\* requester ann and the supporter sam drive them.  The commands are issued
\* in the first ticket's channel and in the channels the requests create,
\* and sam issues a close only when his previous one has returned.
TicketChans == DOMAIN channels \ {Chan(2)}

NoCloseRunning == \A k \in ClSlots : cl[k].pc \in {"idle", "done"}

NextTickets ==
    \/ \E r \in ReqSlots : on_raw_reaction_add(r, "ann", "practice_pin")
    \/ \E r \in ReqSlots, ch \in TicketChans : execute_match(r, ch, "swap")
    \/ \E ch \in TicketChans \cap {Chan(1)} : rename(ch)
    \/ \E m \in ReactableMsgs, e \in {YES_EMOJI, NO_EMOJI}, u \in {"sam", BOT} : ReactionAdd(m, e, u)
    \/ \E r \in ReqSlots : resume_resolved(r)
    \/ \E r \in ReqSlots : ticket_flush(r)
    \/ \E r \in ReqSlots : create_text_channel(r)
    \/ \E r \in ReqSlots : create_text_channel_fails(r)
    \/ \E r \in ReqSlots : ticket_commit(r)
    \/ \E r \in ReqSlots : swap_apply(r)
    \/ \E k \in ClSlots, ch \in TicketChans : NoCloseRunning /\ execute_close(k, ch, "sam")
    \/ \E k \in ClSlots : close_log(k)
    \/ \E k \in ClSlots : close_dm(k, "sent")
    \/ \E k \in ClSlots : close_delete_channel(k)
    \/ \E k \in ClSlots : close_commit(k)
    \/ \E x \in removals : run_removal(x)

SpecTickets == InitMatch /\ [][NextTickets]_vars

\* create_log on the histories of up to MaxHist messages.
Histories == UNION {[1..n -> Messages] : n \in 1..MaxHist}

InitLog ==
    /\ config \in Configs
    /\ questions = <<>>
    /\ req = [r \in 1..MaxReq |-> ReqIdle]
    /\ cl = [k \in ClSlots |-> ClIdle]
    /\ wiz = [w \in WizSlots |-> WizIdle]
    /\ removals = {}
    /\ logchan = {}
    /\ tickets = OpenTickets
    /\ channels = [c \in {Chan(1), Chan(2)} |->
                      IF c = Chan(1) THEN new_overwrites("ann", "sam")
                      ELSE new_overwrites("adm", "sue")]
    /\ nextId = [ticket |-> 3, chan |-> 3]
    /\ archive \in {[ArchiveIdle EXCEPT !.history = h] : h \in Histories}
    /\ InitStore
    /\ InitWatch

NextLog ==
    \/ create_log_open
    \/ create_log_entry
    \/ create_log_close

SpecLog == InitLog /\ [][NextLog]_vars

\* The watchdog over the two open tickets: members and the bot write in the
\* channels, time passes, the watchdog scans, and a forced close runs to its
\* end with the requester answering the DM-log prompt or not.
InitWatchdog ==
    /\ InitFlows
    /\ InitStore
    /\ questions = <<>>
    /\ tickets = OpenTickets
    /\ channels = [c \in {Chan(1), Chan(2)} |->
                      IF c = Chan(1) THEN new_overwrites("ann", "sam")
                      ELSE new_overwrites("adm", "sue")]
    /\ nextId = [ticket |-> 3, chan |-> 3]
    /\ latest = [c \in {Chan(1), Chan(2)} |-> [age |-> 0, author |-> BOT]]
    /\ watchdog \in {[WatchdogIdle EXCEPT !.timeout = s] : s \in Timeouts}

NextWatchdog ==
    \/ Tick
    \/ \E ch \in {Chan(1), Chan(2)}, u \in {"ann", BOT} : Post(ch, u)
    \/ watchdog_wake
    \/ \E t \in {1, 2}, k \in ClSlots : watchdog_inspect(t, k)
    \/ watchdog_sleep
    \/ \E k \in ClSlots : close_log(k)
    \/ \E m \in ReactableMsgs, e \in {YES_EMOJI, NO_EMOJI}, u \in Requesters : ReactionAdd(m, e, u)
    \/ \E k \in ClSlots : TimeoutForced(k)
    \/ \E k \in ClSlots : close_dm(k, "sent")
    \/ \E k \in ClSlots : close_delete_channel(k)
    \/ \E k \in ClSlots : close_commit(k)

SpecWatchdog == InitWatchdog /\ [][NextWatchdog]_vars

\* The text rows: questions and answers are added with any value a caller
\* can pass, and deleted.
InitTexts ==
    /\ InitFlows
    /\ InitWatch
    /\ questions = <<>>
    /\ tickets = OpenTickets
    /\ channels = [c \in {Chan(1), Chan(2)} |->
                      IF c = Chan(1) THEN new_overwrites("ann", "sam")
                      ELSE new_overwrites("adm", "sue")]
    /\ nextId = [ticket |-> 3, chan |-> 3]
    /\ guild_configs = {GUILD}
    /\ ticket_configs = <<>>
    /\ setup = [s \in SetupSlots |-> SetupIdle]
    /\ result = ResultIdle
    /\ texts = TextsIdle

NextTexts ==
    \/ \E v \in TextValues : add_ticket_question(v)
    \/ \E v \in TextValues : add_ticket_response(v)
    \/ delete_text

SpecTexts == InitTexts /\ [][NextTexts]_vars

\* The ticket flows of two configured guilds: supervisors run ticket_setup,
\* several at a time, and answer or stop.
InitSetup ==
    /\ InitFlows
    /\ InitWatch
    /\ questions = <<>>
    /\ tickets = OpenTickets
    /\ channels = [c \in {Chan(1), Chan(2)} |->
                      IF c = Chan(1) THEN new_overwrites("ann", "sam")
                      ELSE new_overwrites("adm", "sue")]
    /\ nextId = [ticket |-> 3, chan |-> 3]
    /\ guild_configs = Guilds
    /\ ticket_configs = <<>>
    /\ setup = [s \in SetupSlots |-> SetupIdle]
    /\ result = ResultIdle
    /\ texts = TextsIdle

NextSetup ==
    \/ \E s \in SetupSlots, g \in Guilds, name \in FlowNames : ticket_setup(s, g, name)
    \/ \E s \in SetupSlots, c \in Prefixes \cup {STOP_MSG} : ticket_setup_prefix(s, c)
    \/ \E s \in SetupSlots, e \in EmojiIds : ticket_setup_emoji(s, e)
    \/ \E s \in SetupSlots : ticket_setup_commit(s)

SpecSetup == InitSetup /\ [][NextSetup]_vars

\* The queries over every small content of the tables: up to MaxRows Ticket
\* rows of two guilds and two users, each with a channel of its own
\* (channel_id is unique), and GuildConfig rows for some of the guilds.
TicketTables ==
    UNION {[1..n -> [user_id : {"ann", "adm"}, supporter_id : {"sam"},
                     channel_id : {Chan(1), Chan(2), Chan(3)}, guild_id : Guilds,
                     committed : {TRUE}, origin : {0}, is_practice : {FALSE},
                     request_msg : {{"r_support"}}]] : n \in 0..MaxRows}

InitQuery ==
    /\ InitFlows
    /\ InitWatch
    /\ questions = <<>>
    /\ tickets \in {T \in TicketTables :
                      \A i, j \in DOMAIN T : i # j => T[i].channel_id # T[j].channel_id}
    /\ channels = [c \in {Chan(1), Chan(2)} |->
                      IF c = Chan(1) THEN new_overwrites("ann", "sam")
                      ELSE new_overwrites("adm", "sue")]
    /\ nextId = [ticket |-> 3, chan |-> 3]
    /\ guild_configs \in SUBSET Guilds
    /\ ticket_configs = <<>>
    /\ setup = [s \in SetupSlots |-> SetupIdle]
    /\ result = ResultIdle
    /\ texts = TextsIdle

NextQuery ==
    \/ \E g \in Guilds, u \in {NONE, "ann", "adm"}, ch \in {NOCHAN, Chan(1), Chan(2)} :
          query_ticket(g, u, ch)
    \/ \E g \in Guilds : query_guild_config(g)

SpecQuery == InitQuery /\ [][NextQuery]_vars

\* The admin wizards in a guild that may have no GuildConfig row yet.
InitAdmin ==
    /\ InitFlows
    /\ InitWatch
    /\ questions = <<>>
    /\ tickets = OpenTickets
    /\ channels = [c \in {Chan(1), Chan(2)} |->
                      IF c = Chan(1) THEN new_overwrites("ann", "sam")
                      ELSE new_overwrites("adm", "sue")]
    /\ nextId = [ticket |-> 3, chan |-> 3]
    /\ guild_configs \in SUBSET {GUILD}
    /\ ticket_configs = <<>>
    /\ setup = [s \in SetupSlots |-> SetupIdle]
    /\ result = ResultIdle
    /\ texts = TextsIdle

SpecAdmin == InitAdmin /\ [][NextWizard]_vars

\* The ticket commands in a guild that may have no GuildConfig row: close,
\* swap and rename are issued in the channel of the first ticket, one
\* command at a time.
InitTicketCmd == InitAdmin

\* the members issue a command when the previous one has returned
NoFlowRunning == NoCloseRunning /\ \A r \in ReqSlots : req[r].pc \in {"idle", "done"}

NextTicketCmd ==
    \/ \E k \in ClSlots : NoFlowRunning /\ execute_close(k, Chan(1), "ann")
    \/ \E r \in ReqSlots : NoFlowRunning /\ execute_match(r, Chan(1), "swap")
    \/ NoFlowRunning /\ rename(Chan(1))
    \/ \E m \in ReactableMsgs, e \in {YES_EMOJI, NO_EMOJI}, u \in PromptActors : ReactionAdd(m, e, u)
    \/ \E r \in ReqSlots : Timeout(r)
    \/ \E r \in ReqSlots : resume_resolved(r)
    \/ \E r \in ReqSlots : swap_apply(r)
    \/ \E x \in removals : run_removal(x)
    \/ \E k \in ClSlots : TimeoutClose(k)
    \/ \E k \in ClSlots : close_log(k)
    \/ \E k \in ClSlots : close_dm(k, "sent")
    \/ \E k \in ClSlots : close_delete_channel(k)
    \/ \E k \in ClSlots : close_commit(k)

SpecTicketCmd == InitTicketCmd /\ [][NextTicketCmd]_vars

\* The matching rounds with a supervisor among the actors: the requester
\* ann, the supervisor adm, the supporter sam and the bot.
DeclineActors == {"ann", "adm", "sam", BOT}

NextDecline ==
    \/ \E r \in ReqSlots, pin \in {"support_pin", "practice_pin"} :
          on_raw_reaction_add(r, "ann", pin)
    \/ \E r \in ReqSlots, sub \in {"swap", "review"} : execute_match(r, Chan(1), sub)
    \/ \E m \in ReactableMsgs, e \in {YES_EMOJI, NO_EMOJI}, u \in DeclineActors : ReactionAdd(m, e, u)
    \/ \E r \in ReqSlots : Timeout(r)
    \/ \E r \in ReqSlots : ticket_request_post(r)
    \/ \E r \in ReqSlots : resume_resolved(r)
    \/ \E r \in ReqSlots : send_ttl_message_done(r)
    \/ \E r \in ReqSlots : ticket_flush(r)
    \/ \E r \in ReqSlots : create_text_channel(r)
    \/ \E r \in ReqSlots : ticket_commit(r)
    \/ \E r \in ReqSlots : swap_apply(r)
    \/ \E x \in removals : run_removal(x)

SpecDecline == InitMatch /\ [][NextDecline]_vars

\* Two dialogs at a time in the support channel: the intake of ann's
\* request and the guild_setup wizard of the supervisor adm, with messages of
\* the two and of sam in the support channel and in a ticket channel.  The
\* request is followed up to the end of its intake.
DialogAuthors == {"ann", "adm", "sam"}
DialogChans == {SUPPORT, Chan(1)}
DialogContents == {"cancel", STOP_MSG, "#chan"}

\* ann has one intake pending at a time, adm one wizard
NoIntakeRunning == \A r \in ReqSlots : req[r].pc \in {"idle", "done", "gathered"}

NoWizardRunning == \A w \in WizSlots : wiz[w].pc \in {"idle", "done"}

NextDialog ==
    \/ \E r \in ReqSlots : NoIntakeRunning /\ on_raw_reaction_add(r, "ann", "support_pin")
    \/ \E w \in WizSlots : NoWizardRunning /\ execute_admin(w, "guild_setup", "adm")
    \/ \E ch \in DialogChans, u \in DialogAuthors, c \in DialogContents : MessageEvent(ch, u, c)
    \/ \E m \in ReactableMsgs, e \in {YES_EMOJI, NO_EMOJI} : ReactionAdd(m, e, "ann")
    \/ \E r \in ReqSlots : Timeout(r)

SpecDialog == InitIntake /\ [][NextDialog]_vars

\* The replies to the intake questions: ann or adm asks for a ticket, one
\* request at a time, and the two answer with replies of 500 and of 501
\* characters, a short reply or the cancellation token; the request is
\* followed up to the end of its intake.
ReplyAuthors == {"ann", "adm"}

ReplyContents == {"long500", "long501", "#chan", "cancel"}

NextReply ==
    \/ \E r \in ReqSlots, u \in ReplyAuthors :
          NoIntakeRunning /\ on_raw_reaction_add(r, u, "support_pin")
    \/ \E u \in ReplyAuthors, c \in ReplyContents : MessageEvent(SUPPORT, u, c)
    \/ \E m \in ReactableMsgs, u \in ReplyAuthors : ReactionAdd(m, YES_EMOJI, u)
    \/ \E r \in ReqSlots : Timeout(r)

SpecReply == InitIntake /\ [][NextReply]_vars

\* The ticket commands where they do not belong: close, rename, swap and
\* review are issued in the support channel (no Ticket row), in the channel
\* of the first ticket (not a practice ticket) and in the channel of the
\* practice ticket, one command at a time; a command that is not rejected
\* is declined by ann or times out.
CommandChans == {SUPPORT, Chan(1), Chan(2)}

NextReject ==
    \/ \E k \in ClSlots, ch \in CommandChans : NoFlowRunning /\ execute_close(k, ch, "ann")
    \/ \E r \in ReqSlots, ch \in CommandChans, sub \in {"swap", "review"} :
          NoFlowRunning /\ execute_match(r, ch, sub)
    \/ \E ch \in CommandChans : NoFlowRunning /\ rename(ch)
    \/ \E m \in ReactableMsgs : ReactionAdd(m, NO_EMOJI, "ann")
    \/ \E r \in ReqSlots, e \in Emojis : ReactionAdd(Prompt(r), e, BOT)
    \/ \E r \in ReqSlots : Timeout(r)
    \/ \E r \in ReqSlots : resume_resolved(r)
    \/ \E x \in removals : run_removal(x)
    \/ \E k \in ClSlots : TimeoutClose(k)

SpecReject == InitMatch /\ [][NextReject]_vars

\* Two swaps of the first ticket whose rounds overlap: both were issued
\* while sam was the responder.  The second one has been accepted by x and
\* applied (sam's overwrite `none`, x's `user`, supporter_id x); the first
\* one is still suspended in its wait, with the echo of the bot's reactions
\* delivered.
SwapAcceptors == {"sam", "sue"}

InitOverlap ==
    /\ InitStore
    /\ InitWatch
    /\ config \in Configs
    /\ questions = <<>>
    /\ cl = [k \in ClSlots |-> ClIdle]
    /\ wiz = [w \in WizSlots |-> WizIdle]
    /\ removals = {}
    /\ logchan = {}
    /\ archive = ArchiveIdle
    /\ nextId = [ticket |-> 3, chan |-> 3]
    /\ \E x \in SwapAcceptors :
          /\ tickets = [OpenTickets EXCEPT ![1].supporter_id = x]
          /\ channels = [c \in {Chan(1), Chan(2)} |->
                IF c = Chan(1)
                THEN SetOverwrite(SetOverwrite(new_overwrites("ann", "sam"), "sam", "none"),
                                  x, "user")
                ELSE new_overwrites("adm", "sue")]
    /\ req = [r \in 1..MaxReq |->
                IF r = 1
                THEN [post_request([ReqIdle EXCEPT !.kind = "swap", !.chan = Chan(1),
                                                   !.ticket = 1, !.user = "ann",
                                                   !.old_responder = "sam"],
                                   {config.adult_role_id, config.role_id} \ {NONE})
                        EXCEPT !.echo = {}]
                ELSE ReqIdle]

NextOverlap ==
    \/ \E m \in ReactableMsgs, e \in {YES_EMOJI, NO_EMOJI}, u \in Members : ReactionAdd(m, e, u)
    \/ \E r \in ReqSlots : Timeout(r)
    \/ \E r \in ReqSlots : resume_resolved(r)
    \/ \E r \in ReqSlots : swap_apply(r)
    \/ \E x \in removals : run_removal(x)

SpecOverlap == InitOverlap /\ [][NextOverlap]_vars

\* Swaps of a ticket that was requested with adult support: ann chose the
\* U18 reaction in the preamble, sue (who holds the adult role, if one is
\* configured) accepted, and the ticket was created.  Swaps are issued in its
\* channel and in the channel of the practice ticket.
InitAdult ==
    /\ InitCommon
    /\ questions = <<>>
    /\ tickets = [OpenTickets EXCEPT ![1].supporter_id = "sue",
                                     ![1].request_msg = request_roles(TRUE)]
    /\ channels = [c \in {Chan(1), Chan(2)} |->
                      IF c = Chan(1) THEN new_overwrites("ann", "sue")
                      ELSE new_overwrites("adm", "sue")]
    /\ nextId = [ticket |-> 3, chan |-> 3]

NextAdult ==
    \/ \E r \in ReqSlots, ch \in {Chan(1), Chan(2)} : execute_match(r, ch, "swap")
    \/ \E m \in ReactableMsgs, e \in {YES_EMOJI, NO_EMOJI}, u \in Members : ReactionAdd(m, e, u)
    \/ \E r \in ReqSlots, e \in Emojis : ReactionAdd(Prompt(r), e, BOT)
    \/ \E r \in ReqSlots : Timeout(r)
    \/ \E r \in ReqSlots : resume_resolved(r)
    \/ \E r \in ReqSlots : swap_apply(r)
    \/ \E x \in removals : run_removal(x)

SpecAdult == InitAdult /\ [][NextAdult]_vars

\* A requester who asks twice: ann reacts to the support pin again before
\* her first intake dialog has ended, so the run has room for one request
\* more than MaxReq.  Nothing in on_raw_reaction_add keeps a member to one
\* request.  She answers the preamble, writes in the support channel, or
\* lets a dialog time out.
InitTwice ==
    /\ InitStore
    /\ InitWatch
    /\ config \in Configs
    /\ questions = <<"q1", "q2">>
    /\ req = [r \in 1..(MaxReq + 1) |-> ReqIdle]
    /\ cl = [k \in ClSlots |-> ClIdle]
    /\ wiz = [w \in WizSlots |-> WizIdle]
    /\ removals = {}
    /\ logchan = {}
    /\ archive = ArchiveIdle
    /\ tickets = OpenTickets
    /\ channels = [c \in {Chan(1), Chan(2)} |->
                      IF c = Chan(1) THEN new_overwrites("ann", "sam")
                      ELSE new_overwrites("adm", "sue")]
    /\ nextId = [ticket |-> 3, chan |-> 3]

NextTwice ==
    \/ \E r \in ReqSlots : on_raw_reaction_add(r, "ann", "support_pin")
    \/ \E m \in ReactableMsgs, e \in {YES_EMOJI, NO_EMOJI} : ReactionAdd(m, e, "ann")
    \/ \E c \in {"#chan", "cancel"} : MessageEvent(SUPPORT, "ann", c)
    \/ \E r \in ReqSlots : Timeout(r)

SpecTwice == InitTwice /\ [][NextTwice]_vars

\* ------------------------------------------------------------ properties
\* the requests among the matching flows (they create a ticket on accept)
IsRequest(f) == f.kind \in {"ticket_request", "practice_ticket_request"}

\* u holds one of the eligible roles of round f and is not its requester
Eligible(f, u) == member_roles(u) \cap f.roles # {} /\ u # f.user

\* C1: at most one accept gesture ever resolves a matching request: the wait
\* of a round is resolved by at most one gesture, the responder of an
\* accepted round is the actor of that one gesture and no later step (a
\* later gesture on the prompt included) changes it, an accepted request
\* creates at most one ticket row and one channel, and every supporter
\* written to a ticket row is the actor of the one gesture that resolved the
\* round writing it.
C1_OneAcceptResolves ==
    /\ [](/\ \A r \in ReqSlots :
                /\ Len(req[r].resolved) <= 1
                /\ req[r].outcome = "accept" =>
                      req[r].resolved = <<<<YES_EMOJI, req[r].responder>>>>
                /\ Cardinality({t \in DOMAIN tickets : tickets[t].origin = r}) <= 1
          /\ LET accepted == {r \in ReqSlots : IsRequest(req[r]) /\ req[r].outcome = "accept"}
             IN  /\ Cardinality(DOMAIN tickets)
                       <= Cardinality(DOMAIN OpenTickets) + Cardinality(accepted)
                 /\ Cardinality(DOMAIN channels)
                       <= Cardinality(DOMAIN OpenTickets) + Cardinality(accepted))
    /\ [][/\ \A r \in ReqSlots :
                req[r].resolved # <<>> =>
                    /\ req'[r].resolved = req[r].resolved
                    /\ req'[r].responder = req[r].responder
          /\ \A t \in DOMAIN tickets' :
                (t \notin DOMAIN tickets \/ tickets'[t].supporter_id # tickets[t].supporter_id)
                    => \E r \in ReqSlots :
                          /\ req[r].outcome = "accept"
                          /\ req[r].resolved = <<<<YES_EMOJI, tickets'[t].supporter_id>>>>
                          /\ req'[r].ticket = t]_vars

\* C1 witness: a round was accepted and another eligible actor has added an
\* accept gesture to the same prompt afterwards.
C1_Witness ==
    \E r \in ReqSlots :
        /\ req[r].outcome = "accept" /\ req[r].prompt = "posted"
        /\ \E x \in req[r].late :
              x[1] = YES_EMOJI /\ x[2] \notin {BOT, req[r].responder} /\ Eligible(req[r], x[2])

\* C2: a round resolved by an accept gesture has exactly one responder, who
\* holds at least one of the eligible roles and is not the requester.
C2_AcceptorEligible ==
    \A r \in ReqSlots :
        req[r].outcome = "accept" =>
            /\ req[r].responder \in Actors
            /\ req[r].reaction = YES_EMOJI
            /\ member_roles(req[r].responder) \cap req[r].roles # {}
            /\ req[r].responder # req[r].user

\* C2 witness: a round was accepted whose requester holds an eligible role too.
C2_Witness ==
    \E r \in ReqSlots :
        /\ req[r].outcome = "accept"
        /\ member_roles(req[r].user) \cap req[r].roles # {}

\* the gestures claim C3 lists as not qualifying for round f
Disqualified(f, e, u) ==
    \/ e = YES_EMOJI /\ (u = f.user \/ member_roles(u) \cap f.roles = {})
    \/ e = NO_EMOJI /\ u # f.user /\ ADMIN_ROLE \notin member_roles(u)
    \/ e \notin {YES_EMOJI, NO_EMOJI}

\* C3 as stated: every gesture on a matching prompt from an actor who does
\* not qualify has not resolved the wait and has its removal scheduled.
C3_AsStated ==
    \A r \in ReqSlots :
        req[r].prompt = "posted" =>
            \A x \in req[r].reactions \cup req[r].late :
                Disqualified(req[r], x[1], x[2]) =>
                    /\ x \notin SeqSet(req[r].resolved)
                    /\ <<Prompt(r), x[1], x[2]>> \in removals

\* C3 (amended): no gesture that does not qualify ever resolves a wait;
\* while the wait is pending, every gesture a member has on the prompt does
\* not qualify and has its removal scheduled; no removal is ever scheduled
\* for a gesture of the bot itself or for a gesture on a prompt whose wait
\* is over.
C3_DisqualifiedReverted ==
    /\ \A r \in ReqSlots :
          /\ \A x \in SeqSet(req[r].resolved) : ~Disqualified(req[r], x[1], x[2])
          /\ Listening(req[r]) =>
                \A x \in req[r].reactions :
                    x[2] # BOT => /\ Disqualified(req[r], x[1], x[2])
                                  /\ <<Prompt(r), x[1], x[2]>> \in removals
    /\ \A x \in removals :
          /\ x[3] # BOT
          /\ \E r \in ReqSlots : x[1] = Prompt(r) /\ Listening(req[r])

\* C3 witness: the wait is pending and the removal of a member's gesture that
\* does not qualify is scheduled.
C3_Witness ==
    \E r \in ReqSlots :
        /\ Listening(req[r])
        /\ \E x \in req[r].reactions :
              /\ x[2] # BOT
              /\ Disqualified(req[r], x[1], x[2])
              /\ <<Prompt(r), x[1], x[2]>> \in removals

\* the replies that are the cancellation token of the intake dialog
CancelToken == {"cancel", "Cancel"}

\* the intake of flow f was cancelled by its requester or timed out
IntakeAborted(f) ==
    \/ f.preamble = NO_EMOJI
    \/ \E i \in DOMAIN f.responses : f.responses[i] \in CancelToken
    \/ f.outcome = "intake_timeout"

\* C9: when the intake is cancelled (the cancellation token at any question,
\* a decline gesture on the preamble) or times out, the flow is over: no
\* matching request was posted or logged, no Ticket row and no channel were
\* created, and the requester is shown the cancellation message.
C9_AbortedIntakeLeavesNothing ==
    \A r \in ReqSlots :
        IntakeAborted(req[r]) =>
            /\ req[r].pc = "done"
            /\ req[r].prompt = NONE
            /\ <<"Request", r>> \notin logchan
            /\ \A t \in DOMAIN tickets : tickets[t].origin # r
            /\ req[r].chan = SUPPORT
            /\ Cardinality(DOMAIN channels) <=
                  Cardinality(DOMAIN OpenTickets)
                  + Cardinality({q \in ReqSlots : IsRequest(req[q]) /\ req[q].outcome = "accept"})
            /\ req[r].notice \in {"Request cancelled by user.",
                                  "User didn't respond to questions in time. Cancelling request."}

\* C9 witness: the requester answered the first question and cancelled at the
\* second one with the token in another case.
C9_Witness ==
    \E r \in ReqSlots :
        /\ Len(req[r].responses) = Len(questions)
        /\ req[r].responses[Len(questions)] = "Cancel"
        /\ req[r].pc = "done"

\* C10: when the intake dialog has ended, by success, cancellation or
\* timeout, every message it collected (the preamble, each question prompt,
\* each reply including the over-length ones, each too-long notice) was
\* passed to one bulk delete; none is deleted before the dialog ends.
C10_AllCollectedBulkDeleted ==
    \A r \in ReqSlots :
        req[r].kind = "ticket_request" =>
            IF req[r].pc \in {"preamble", "question"}
            THEN req[r].bulk = <<>>
            ELSE req[r].bulk = <<req[r].posted>>

\* C10 witness: a dialog that had an over-length reply and its notice has ended.
C10_Witness ==
    \E r \in ReqSlots :
        /\ req[r].kind = "ticket_request"
        /\ req[r].pc \notin {"preamble", "question"}
        /\ req[r].retries > 0
        /\ \E x \in req[r].posted : x[1] = "notice"
        /\ \E x \in req[r].posted : x[1] = "reply" /\ x[3] = Len(req[r].sent)

\* no close flow has deleted the channel ch or its row
Undeleted(ch) == \A j \in ClSlots : cl[j].chan = ch => cl[j].deleted = {}

\* the ticket of close flow k is still open: its channel exists and its row
\* is the one the flow found, unchanged
StillOpen(k) ==
    /\ cl[k].chan \in DOMAIN channels
    /\ get_ticket(GUILD, NONE, cl[k].chan) = [raised |-> NONE, id |-> cl[k].ticket]
    /\ tickets[cl[k].ticket] = OpenTickets[cl[k].ticket]

\* C4: when the closer accepted the DM-log prompt and the direct message to
\* the requester is forbidden, the close is over without deleting the Ticket
\* row or the channel, and unless another close has deleted them the ticket
\* is still found by get_ticket on the same channel.
C4_ForbiddenDmKeepsTicket ==
    \A k \in ClSlots :
        cl[k].dm = "forbidden" =>
            /\ cl[k].second = YES_EMOJI
            /\ cl[k].pc = "done"
            /\ cl[k].deleted = {}
            /\ Undeleted(cl[k].chan) => StillOpen(k)

\* C4 witness: a close ended on a forbidden DM, and a close command issued
\* afterwards on the same channel has closed the ticket.
C4_Witness ==
    \E k, j \in ClSlots :
        /\ cl[k].dm = "forbidden"
        /\ k \in cl[j].after
        /\ cl[j].chan = cl[k].chan
        /\ cl[j].outcome = "closed"
        /\ cl[j].deleted = {"channel", "row"}

C6_DeclinedCloseKeepsTicket ==
    \A k \in ClSlots :
        cl[k].first \in {NO_EMOJI, "timeout"} =>
            /\ cl[k].pc = "done"
            /\ cl[k].deleted = {}
            /\ ~cl[k].transcript
            /\ <<"Close", k>> \notin logchan
            /\ cl[k].second = NONE
            /\ Undeleted(cl[k].chan) => StillOpen(k)
            /\ \/ /\ cl[k].outcome = "cancelled"
                  /\ cl[k].notice = "Cancelling request to close ticket."
               \/ /\ cl[k].outcome = "NotFound"
                  /\ \E j \in ClSlots \ {k} :
                        cl[j].chan = cl[k].chan /\ "channel" \in cl[j].deleted

\* C6 witness: the author declined the first confirmation, the notice is
\* shown and the ticket is open.
C6_Witness ==
    \E k \in ClSlots :
        /\ cl[k].first = NO_EMOJI
        /\ cl[k].notice = "Cancelling request to close ticket."
        /\ StillOpen(k)

\* C7 as stated: a close aborted after the first confirmation (direct message
\* forbidden, or the DM-log prompt timed out) has deleted nothing, and no
\* 'Close' entry with the transcript is in the log channel for its ticket.
C7_AsStated ==
    \A k \in ClSlots :
        (cl[k].dm = "forbidden" \/ cl[k].second = "timeout") =>
            /\ cl[k].deleted = {}
            /\ <<"Close", k>> \notin logchan

\* C7 witness: the DM-log prompt timed out, the ticket is open, and the log
\* channel holds the 'Close' entry of that attempt.
C7_Witness ==
    \E k \in ClSlots :
        /\ cl[k].second = "timeout"
        /\ cl[k].pc = "done"
        /\ StillOpen(k)
        /\ <<"Close", k>> \in logchan

\* C8 as stated, for the admin wizards: a reply equal to the cancellation
\* token ends the wizard as cancelled at whichever prompt it is given: no
\* later prompt is sent and nothing that follows the prompts is run.
C8_AsStated ==
    \A w \in WizSlots :
        wiz[w].stopped # 0 =>
            /\ wiz[w].pc = "done"
            /\ wiz[w].outcome = "cancelled"
            /\ ~wiz[w].reacted
            /\ \A s \in wiz[w].ran : s <= wiz[w].stopped

\* C8 witness: ticket_setup was told to stop at its roles prompt and has
\* completed the flow and added the reaction to the pinned message.
C8_Witness ==
    \E w \in WizSlots :
        /\ wiz[w].kind = "ticket_setup"
        /\ wiz[w].stopped = Len(WizSteps(wiz[w].kind))
        /\ wiz[w].outcome = "completed"
        /\ wiz[w].reacted
        /\ wiz[w].resp = "Ticket flow completed. Making reaction."

\* C11: when the matching wait of ticket_request times out, the flow creates
\* no Ticket row and no channel (its channel stays the requesting one), it reports the timeout to the requester's
\* channel, and once it has returned the prompt message is deleted.
C11_TimeoutLeavesNothing ==
    \A r \in ReqSlots :
        (req[r].kind = "ticket_request" /\ req[r].outcome = "timeout") =>
            /\ req[r].pc \in {"resolved", "ttl_sleep", "done"}
            /\ req[r].responder = NONE
            /\ req[r].ticket = 0
            /\ ~ \E t \in DOMAIN tickets : tickets[t].origin = r
            /\ req[r].chan = SUPPORT
            /\ req[r].pc \in {"ttl_sleep", "done"} =>
                  req[r].notice = "It took longer to get a responder."
            /\ req[r].pc = "done" => req[r].prompt = "deleted"

\* C11 witness: a ticket_request whose prompt timed out has returned.
C11_Witness ==
    \E r \in ReqSlots :
        /\ req[r].kind = "ticket_request" /\ req[r].outcome = "timeout"
        /\ req[r].pc = "done" /\ req[r].prompt = "deleted"
        /\ req[r].notice = "It took longer to get a responder."

\* C12: in ticket_request, practice_ticket_request, swap and review, once the
\* wait on the posted prompt is over (by an accept, a decline or the
\* timeout) the prompt message is eventually deleted.
C12_PromptEventuallyDeleted ==
    \A r \in 1..MaxReq : (req[r].pc = "resolved") ~> (req[r].prompt = "deleted")

\* C12 witness: a swap or review round that was declined or timed out has
\* returned and its prompt is deleted.
C12_Witness ==
    \E r \in ReqSlots :
        /\ req[r].kind \in {"swap", "review"}
        /\ req[r].outcome \in {"cancel", "timeout"}
        /\ req[r].resolved # <<>> \/ req[r].outcome = "timeout"
        /\ req[r].pc = "done" /\ req[r].prompt = "deleted"

\* C13 as stated: every matching flow that was started terminates, whatever
\* the members do or fail to do.
C13_AsStated ==
    \A r \in 1..MaxReq : (req[r].kind # NONE) ~> (req[r].pc = "done")

\* C13 witness: a practice request is suspended in its wait with nothing
\* scheduled: only a member's gesture can resume it.
C13_Witness ==
    \E r \in ReqSlots :
        /\ req[r].kind = "practice_ticket_request" /\ req[r].pc = "waiting"
        /\ Quiet
        /\ ~ ENABLED Timeout(r)

\* the flows whose every wait passes a timeout do terminate
BoundedFlowsTerminate ==
    \A r \in 1..MaxReq :
        (req[r].kind \in {"ticket_request", "swap", "review"}) ~> (req[r].pc = "done")

\* C14: the channel a successful ticket_request or practice_ticket_request
\* creates carries an overwrite map that gives the `user` preset to exactly
\* the requester and the accepted responder, the `bot` preset to the bot
\* and the `none` preset to the default role; any other entry is a
\* configured overseer role with the `overseer` preset.
C14_ChannelOverwrites ==
    [][\A c \in DOMAIN channels' \ DOMAIN channels :
          \E r \in ReqSlots :
              /\ IsRequest(req[r]) /\ req[r].outcome = "accept"
              /\ req'[r].chan = c
              /\ req[r].responder \in Members \ {req[r].user}
              /\ LET ow == channels'[c]
                 IN  /\ {p \in DOMAIN ow : ow[p] = "user"} = {req[r].user, req[r].responder}
                     /\ ow[BOT] = "bot"
                     /\ ow[DEFAULT_ROLE] = "none"
                     /\ \A p \in DOMAIN ow \ {BOT, DEFAULT_ROLE, req[r].user, req[r].responder} :
                           p \in config.overseer_role_ids /\ ow[p] = "overseer"]_vars

\* C14 witness: a request was accepted and its channel exists, in a guild
\* with an overseer role configured.
C14_Witness ==
    \E r \in ReqSlots :
        /\ IsRequest(req[r]) /\ req[r].pc \in {"created", "done"}
        /\ req[r].chan \in DOMAIN channels \ {Chan(1), Chan(2)}
        /\ config.overseer_role_ids # {}
        /\ channels[req[r].chan][req[r].responder] = "user"

ChannelCreationFailed ==
    \E r \in ReqSlots : req[r].outcome = "HTTPException" /\ req[r].pc = "done"

\* C16: at every state no two Ticket rows hold the same non-null channel_id.
C16_OneRowPerChannel ==
    \A t1, t2 \in DOMAIN tickets :
        (tickets[t1].channel_id # NOCHAN /\ tickets[t1].channel_id = tickets[t2].channel_id)
            => t1 = t2

\* C16 witness: a request has committed a third row with its channel beside
\* the two open tickets.
C16_Witness ==
    \E r \in ReqSlots :
        /\ IsRequest(req[r]) /\ req[r].pc = "done" /\ req[r].outcome = "accept"
        /\ req[r].ticket \in DOMAIN tickets
        /\ tickets[req[r].ticket].committed
        /\ tickets[req[r].ticket].channel_id = req[r].chan
        /\ Cardinality({t \in DOMAIN tickets : tickets[t].channel_id # NOCHAN}) >= 3

\* the entries of the chunks written after the header, in file order
RECURSIVE Flatten(_)
Flatten(chunks) == IF chunks = <<>> THEN <<>> ELSE Head(chunks) \o Flatten(Tail(chunks))

\* the entries of the first n messages of history h, oldest first
Entries(h, n) == [j \in 1..n |-> TRANSCRIPT_ENTRY(h[j])]

\* C17: for a history of N messages create_log writes the header and then
\* exactly N entries in the order of the history, each with the author id
\* and the content of its message; while it runs, the file and the buffer
\* together hold exactly the entries of the messages read so far, so the
\* flush of a buffer longer than 10000 characters neither drops, repeats
\* nor reorders an entry.
C17_TranscriptRoundTrip ==
    archive.pc \in {"history", "closed"} =>
        LET written == Flatten(Tail(archive.fout))
            N == Len(archive.history)
        IN  /\ archive.fout[1] = TRANSCRIPT_HEADER
            /\ written \o archive.to_flush = Entries(archive.history, archive.i - 1)
            /\ archive.pc = "closed" =>
                  /\ archive.to_flush = <<>>
                  /\ Len(written) = N
                  /\ \A j \in 1..N :
                        /\ written[j].id = <<"id", archive.history[j].author>>
                        /\ written[j].msg = archive.history[j].content

\* C17 witness: create_log has closed the file of a history of four
\* messages after one flush of the full buffer and one of the remainder.
C17_Witness ==
    /\ archive.pc = "closed"
    /\ Len(archive.history) >= 4
    /\ Len(archive.fout) >= 3
    /\ FlushLen(archive.fout[2]) > FLUSH_LEN

\* C18 as stated: while a swap awaits its new match the prior responder's
\* access to the ticket channel is `none` and the default role's is `user`;
\* after the match the new responder's access is `user` and the default
\* role's is `none`.
C18_AsStated ==
    \A r \in ReqSlots :
        (req[r].kind = "swap" /\ req[r].chan \in DOMAIN channels) =>
            LET ow == channels[req[r].chan]
            IN  /\ req[r].pc = "waiting" =>
                      /\ req[r].old_responder \in DOMAIN ow
                      /\ ow[req[r].old_responder] = "none"
                      /\ ow[DEFAULT_ROLE] = "user"
                /\ (req[r].pc = "done" /\ req[r].outcome = "accept") =>
                      /\ req[r].responder \in DOMAIN ow
                      /\ ow[req[r].responder] = "user"
                      /\ ow[DEFAULT_ROLE] = "none"

\* C18 witness: a swap is suspended in its wait, and the overwrites of the
\* ticket channel still give the prior responder `user` and the default
\* role `none`.
C18_Witness ==
    \E r \in ReqSlots :
        /\ req[r].kind = "swap" /\ req[r].pc = "waiting" /\ Quiet
        /\ req[r].chan \in DOMAIN channels
        /\ channels[req[r].chan][req[r].old_responder] = "user"
        /\ channels[req[r].chan][DEFAULT_ROLE] = "none"

\* C19 as stated: an accepted swap was never resolved by the ticket's
\* current responder, so the new responder differs from the prior one.
C19_AsStated ==
    \A r \in ReqSlots :
        (req[r].kind = "swap" /\ req[r].outcome = "accept") =>
            req[r].responder # req[r].old_responder

\* C19 witness: a swap has been applied whose accepting actor is the
\* responder the ticket already had.
C19_Witness ==
    \E r \in ReqSlots :
        /\ req[r].kind = "swap" /\ req[r].outcome = "accept" /\ req[r].pc = "done"
        /\ req[r].responder = req[r].old_responder
        /\ tickets[req[r].ticket].supporter_id = req[r].old_responder

\* C20 as stated: the actor an accepted review gives reviewer access to is
\* neither the ticket's requester nor its current responder.
C20_AsStated ==
    \A r \in ReqSlots :
        (req[r].kind = "review" /\ req[r].outcome = "accept") =>
            /\ req[r].responder # req[r].user
            /\ req[r].ticket \in DOMAIN tickets =>
                  req[r].responder # tickets[req[r].ticket].supporter_id

\* C20 witness: a review has been applied whose reviewer is the ticket's
\* current responder.
C20_Witness ==
    \E r \in ReqSlots :
        /\ req[r].kind = "review" /\ req[r].outcome = "accept" /\ req[r].pc = "done"
        /\ req[r].responder = tickets[req[r].ticket].supporter_id
        /\ channels[req[r].chan][req[r].responder] = "user"

\* the part of the exclusion the check does enforce: the reviewer is never
\* the ticket's requester
ReviewerNotRequester ==
    \A r \in ReqSlots :
        (req[r].kind \in {"swap", "review"} /\ req[r].outcome = "accept") =>
            req[r].responder # req[r].user

\* ------------------------------------------------- one flow per channel
\* the interactive flows of Ticket that are suspended or not yet returned
CloseActive(k) == cl[k].pc \notin {"idle", "done"}

MatchActive(r) == req[r].kind \in {"swap", "review"} /\ req[r].pc \notin {"idle", "done"}

\* C21 as stated: at no time are two interactive flows (close, swap, review,
\* from any command authors) active for the same ticket channel.
C21_AsStated ==
    /\ \A j, k \in ClSlots :
          (j # k /\ CloseActive(j) /\ CloseActive(k)) => cl[j].chan # cl[k].chan
    /\ \A r, q \in ReqSlots :
          (r # q /\ MatchActive(r) /\ MatchActive(q)) => req[r].chan # req[q].chan
    /\ \A k \in ClSlots, r \in ReqSlots :
          (CloseActive(k) /\ MatchActive(r)) => cl[k].chan # req[r].chan

\* C21 witness: two close commands of two authors are both suspended at
\* their first confirmation prompt in the channel of the same ticket.
C21_Witness ==
    \E j, k \in ClSlots :
        /\ j # k
        /\ cl[j].pc = "confirm" /\ cl[k].pc = "confirm"
        /\ cl[j].chan = cl[k].chan /\ cl[j].ticket = cl[k].ticket
        /\ cl[j].author # cl[k].author

\* ------------------------------------------------- the watchdog's test
\* C22: the watchdog never forces the close of a ticket whose most recent
\* channel message is younger than the configured threshold, nor of one
\* whose most recent message was written by the bot itself.
C22_WatchdogSparesActive ==
    [][\A k \in ClSlots :
          (cl[k].first # "forced" /\ cl'[k].first = "forced") =>
              /\ ~(latest[cl'[k].chan].age < watchdog.timeout)
              /\ latest[cl'[k].chan].author # BOT]_vars

\* C22 witness: a scan has inspected both tickets; it forced the close of
\* the first, and spared the second, whose last message is younger than the
\* threshold.
C22_Witness ==
    /\ watchdog.pc = "scanning" /\ watchdog.todo = {}
    /\ \E k \in ClSlots : cl[k].first = "forced" /\ cl[k].ticket = 1
    /\ 2 \in DOMAIN tickets
    /\ latest[Chan(2)].age < watchdog.timeout
    /\ \A k \in ClSlots : cl[k].ticket # 2

\* ------------------------------------------------- the text validators
\* what the claim calls an unacceptable text
BadText(v) == v.type # "str" \/ v.len = 0 \/ v.len > LEN_TEXT

\* C23 as stated: assigning a text that is empty, longer than LEN_TEXT or
\* not a string fails with ValueError at the assignment, so that no row
\* holds an empty or over-length text.
C23_AsStated ==
    /\ (texts.value \in TextValues /\ BadText(texts.value)) => texts.raised = "ValueError"
    /\ \A i \in 1..Len(texts.rows) : ~BadText(texts.rows[i].text)

\* C23 witness: bytes were assigned to the text of a row, the validator
\* returned them and the row holds them.
C23_Witness ==
    /\ texts.value.type = "bytes"
    /\ texts.raised = NONE
    /\ \E i \in 1..Len(texts.rows) : texts.rows[i].text = texts.value

\* what the validators do guarantee: a value that is empty, has no length
\* or is longer than LEN_TEXT is refused, and no row holds one
TextsWithinLimit ==
    /\ (texts.value \in TextValues /\ (~texts.value.truthy \/ texts.value.len = NOLEN
                               \/ texts.value.len > LEN_TEXT))
          => texts.raised = "ValueError"
    /\ \A i \in 1..Len(texts.rows) :
          texts.rows[i].text.len \in 1..LEN_TEXT

\* ------------------------------------------------ TicketConfig uniqueness
\* C24: at every state no two TicketConfig rows of the same guild share a
\* name, a trigger emoji id or a prefix, the rows ticket_setup has flushed
\* before their prefix and emoji were answered included.
C24_UniquePerGuild ==
    \A i, j \in DOMAIN ticket_configs :
        (i # j /\ ticket_configs[i].guild_id = ticket_configs[j].guild_id) =>
            /\ ticket_configs[i].name # ticket_configs[j].name
            /\ ticket_configs[i].emoji_id # ticket_configs[j].emoji_id
            /\ ticket_configs[i].prefix # ticket_configs[j].prefix

\* C24 witness: a guild has a row whose prefix and emoji were never
\* answered, and a second ticket_setup of that guild, for another name, was
\* refused by the table.
C24_Witness ==
    \E i \in DOMAIN ticket_configs, s \in SetupSlots :
        /\ ticket_configs[i].prefix = NOT_SET /\ ticket_configs[i].emoji_id = 0
        /\ setup[s].outcome = "IntegrityError" /\ setup[s].id = 0
        /\ setup[s].guild_id = ticket_configs[i].guild_id
        /\ \E t \in SetupSlots : setup[t].id = i /\ setup[t].outcome = "cancelled"

\* ----------------------------------------------------- the two queries
\* the persisted rows that match the guild and the filters given to the last call
Matching ==
    IF result.call = "get_ticket"
    THEN {t \in DOMAIN tickets :
            /\ tickets[t].guild_id = result.guild_id
            /\ result.user_id = NONE \/ tickets[t].user_id = result.user_id
            /\ result.channel_id = NOCHAN \/ tickets[t].channel_id = result.channel_id}
    ELSE {}

C26_NoPermsNoRows ==
    /\ [](\A w \in WizSlots :
            (wiz[w].kind # NONE /\ ADMIN_ROLE \notin member_roles(wiz[w].author)) =>
                /\ wiz[w].pc = "done" /\ wiz[w].outcome = "InvalidPerms"
                /\ wiz[w].ran = {} /\ wiz[w].assigned = {}
                /\ ~wiz[w].committed /\ ~wiz[w].reacted)
    /\ [][\A w \in WizSlots :
            (wiz[w].kind = NONE /\ wiz'[w].kind # NONE
             /\ ADMIN_ROLE \notin member_roles(wiz'[w].author)) =>
                UNCHANGED <<guild_configs, ticket_configs, texts, config, tickets>>]_vars

\* C26 witness: a member without the role has issued an admin command in a
\* guild without GuildConfig row; the command raised InvalidPerms and the
\* guild still has no row.
C26_Witness ==
    \E w \in WizSlots :
        /\ wiz[w].outcome = "InvalidPerms"
        /\ ADMIN_ROLE \notin member_roles(wiz[w].author)
        /\ GUILD \notin guild_configs

MayCancel(f, u) == u = f.user \/ ADMIN_ROLE \in member_roles(u)

\* C28: a decline gesture on the prompt of a waiting round resolves the
\* round as cancelled if and only if its actor is the original requester or
\* holds the supervisory role; the decline of an eligible responder who is
\* neither does not cancel the request.
C28_DeclineCancels ==
    /\ [](\A r \in ReqSlots :
            req[r].outcome = "cancel" =>
                /\ req[r].reaction = NO_EMOJI
                /\ MayCancel(req[r], req[r].responder))
    /\ [][\A r \in ReqSlots, u \in Members :
            (Listening(req[r]) /\ ReactionAdd(Prompt(r), NO_EMOJI, u)) =>
                ((req'[r].pc = "resolved" /\ req'[r].outcome = "cancel"
                  /\ req'[r].responder = u)
                 <=> MayCancel(req[r], u))]_vars

\* C28 witness: the supervisor, who is not the requester, declined on the
\* prompt of ann's request and the round is resolved as cancelled.
C28_Witness ==
    \E r \in ReqSlots :
        /\ req[r].user = "ann" /\ req[r].responder = "adm"
        /\ req[r].pc = "resolved" /\ req[r].outcome = "cancel"

\* the other direction in a state: sam, an eligible responder, declined;
\* the round still waits and his reaction is about to be removed
DeclineOfResponderPending ==
    \E r \in ReqSlots :
        /\ Listening(req[r])
        /\ <<Prompt(r), NO_EMOJI, "sam">> \in removals
        /\ member_roles("sam") \cap req[r].roles # {}

\* ------------------------------------------------ who answers a dialog
\* is the message of u in ch one of the requester of flow f in its channel
FromRequester(f, ch, u) == u = f.user /\ ch = f.chan

FromAuthor(f, ch, u) == u = f.author /\ ch = f.chan

\* C29: a pending dialog question (of the intake, of an admin wizard) is
\* answered only by a message whose author is the dialog's requester and
\* whose channel is the dialog's channel; a message of another author or in
\* another channel never advances, cancels or resets the dialog.
C29_OnlyRequesterAnswers ==
    /\ [](\A ch \in DialogChans, u \in DialogAuthors, c \in DialogContents :
            /\ \A r \in ReqSlots :
                  (req[r].pc = "question" /\ ~FromRequester(req[r], ch, u)) =>
                      ReqMessage(req[r], r, ch, u, c) = req[r]
            /\ \A w \in WizSlots :
                  (wiz[w].pc = "wait" /\ ~FromAuthor(wiz[w], ch, u)) =>
                      WizMessage(wiz[w], ch, u, c) = wiz[w])
    /\ [][\A ch \in DialogChans, u \in DialogAuthors, c \in DialogContents :
            MessageEvent(ch, u, c) =>
                /\ \A r \in ReqSlots :
                      (req[r].pc = "question" /\ ~FromRequester(req[r], ch, u)) =>
                          req'[r] = req[r]
                /\ \A w \in WizSlots :
                      (wiz[w].pc = "wait" /\ ~FromAuthor(wiz[w], ch, u)) =>
                          wiz'[w] = wiz[w]]_vars
    /\ [][\A r \in ReqSlots :
            (req[r].pc = "question" /\ req'[r].responses # req[r].responses) =>
                \E c \in DialogContents : MessageEvent(req[r].chan, req[r].user, c)]_vars
    /\ [][\A w \in WizSlots :
            (wiz[w].pc = "wait" /\ wiz'[w].step # wiz[w].step) =>
                \E c \in DialogContents : MessageEvent(wiz[w].chan, wiz[w].author, c)]_vars

\* C29 witness: ann's intake has a question pending, with no reply taken
\* yet, while the supervisor's reply in the same channel has advanced his
\* wizard to its second prompt.
C29_Witness ==
    \E r \in ReqSlots, w \in WizSlots :
        /\ req[r].pc = "question" /\ req[r].responses = <<>> /\ req[r].retries = 0
        /\ wiz[w].pc = "wait" /\ wiz[w].step > 1
        /\ req[r].chan = wiz[w].chan /\ req[r].user # wiz[w].author

\* ------------------------------------------------- over-length replies
\* C30: wait_for_response never returns a reply longer than
\* MAX_QUESTION_LEN: each over-length reply produces one too-long notice and
\* leaves the same question pending, however many came before, and only a
\* reply within the limit or a timeout ends the wait.
C30_LongRepliesReasked ==
    /\ [](\A r \in ReqSlots :
            /\ \A i \in 1..Len(req[r].responses) :
                  ContentLen(req[r].responses[i]) <= MAX_QUESTION_LEN
            /\ req[r].pc = "question" =>
                  LET g == wait_for_response(req[r], r, "long501")
                  IN  /\ g.pc = "question" /\ g.qi = req[r].qi
                      /\ g.responses = req[r].responses
                      /\ g.retries = req[r].retries + 1)
    /\ [][\A r \in ReqSlots, c \in ReplyContents :
            (req[r].pc = "question" /\ MessageEvent(req[r].chan, req[r].user, c)) =>
                IF ContentLen(c) > MAX_QUESTION_LEN
                THEN /\ req'[r].pc = "question" /\ req'[r].qi = req[r].qi
                     /\ req'[r].responses = req[r].responses
                     /\ req'[r].sent = req[r].sent \o
                            <<<<"reply", r, Len(req[r].sent) + 1>>,
                              <<"notice", r, Len(req[r].sent) + 2>>>>
                ELSE /\ req'[r].responses = Append(req[r].responses, c)
                     /\ req'[r].pc # "question" \/ req'[r].qi = req[r].qi + 1]_vars
    /\ [][\A r \in ReqSlots :
            (req[r].pc = "question"
             /\ (req'[r].pc # "question" \/ req'[r].qi # req[r].qi)) =>
                \/ Timeout(r)
                \/ \E c \in ReplyContents :
                      /\ ContentLen(c) <= MAX_QUESTION_LEN
                      /\ MessageEvent(req[r].chan, req[r].user, c)]_vars

\* C30 witness: an over-length reply was answered with the notice, and the
\* reply of exactly MAX_QUESTION_LEN characters that followed was returned as
\* the answer to the same question.
C30_Witness ==
    \E r \in ReqSlots :
        /\ req[r].retries > 0
        /\ req[r].responses = <<"long500">>
        /\ req[r].qi = 2 /\ req[r].pc = "question"
        /\ \E n \in 1..Len(req[r].sent) : req[r].sent[n] = <<"notice", r, n>>

\* ------------------------------------------- target of a confirmation
\* C31 as stated: wait_for_user_reaction resolves only on a gesture on the
\* message the wait posted; a yes/no gesture of the same actor on any other
\* message leaves the confirmation pending.
C31_AsStated ==
    [][\A k \in ClSlots : \A m \in ReactableMsgs \ {ClPrompt(k)}, e \in {YES_EMOJI, NO_EMOJI} :
          (cl[k].pc \in {"confirm", "dm_prompt"} /\ ReactionAdd(m, e, cl[k].author))
              => cl'[k] = cl[k]]_vars

\* C31 witness: a close whose first confirmation was resolved by a yes gesture.
C31_Witness ==
    \E k \in ClSlots : cl[k].pc = "confirmed" /\ cl[k].first = YES_EMOJI

\* The matching round does test the target: a gesture on another message
\* than the prompt never resolves it.
MatchingTestsTarget ==
    [][\A r \in ReqSlots : \A m \in ReactableMsgs \ {Prompt(r)}, e \in Emojis, u \in Actors :
          (req[r].pc = "waiting" /\ ReactionAdd(m, e, u)) => req'[r].pc = "waiting"]_vars

\* ------------------------------------------ feedback of an abandoned round
\* C32 as stated: every matching round that ended cancelled or timed out, in
\* ticket_request, practice_ticket_request, swap and review alike, has told
\* its channel so, and the flow is abandoned (no row, no channel, no edit).
C32_AsStated ==
    \A r \in ReqSlots :
        (req[r].pc = "done" /\ req[r].outcome \in {"cancel", "timeout"}) =>
            /\ req[r].notice # NONE
            /\ req[r].ticket \in {0} \cup DOMAIN OpenTickets

\* C32 witness: a swap or a review whose round was declined or timed out
\* has returned.
C32_Witness ==
    \E r \in ReqSlots :
        /\ req[r].kind \in {"swap", "review"}
        /\ req[r].pc = "done"
        /\ req[r].outcome \in {"cancel", "timeout"}

\* The two requests do send the message, and every abandoned round leaves
\* rows, channels and overwrites as they were.
RequestsTellTheChannel ==
    /\ [](\A r \in ReqSlots :
            (req[r].pc = "done" /\ req[r].outcome \in {"cancel", "timeout"}
             /\ req[r].kind \in {"ticket_request", "practice_ticket_request"})
                => req[r].notice # NONE)
    /\ [][\A r \in ReqSlots :
            (req[r].pc \in {"resolved", "ttl_sleep"} /\ req[r].outcome \in {"cancel", "timeout"}
             /\ req'[r].pc # req[r].pc)
                => /\ tickets' = tickets /\ channels' = channels
                   /\ req'[r].pc \in {"ttl_sleep", "done"}]_vars

\* -------------------------------------------- when the prompt is deleted
\* C33 as stated: in every matching flow the prompt is deleted as soon as
\* the wait has resolved, before the flow sends a further message or sleeps,
\* on accept, decline and timeout alike: a prompt that is still posted
\* belongs to a flow that waits on it or is about to be resumed.
C33_AsStated ==
    \A r \in ReqSlots :
        req[r].prompt = "posted" => req[r].pc \in {"waiting", "resolved"}

\* C33 witness: a request was declined or timed out, has sent its message
\* and sleeps, and a gesture was added to its prompt meanwhile.
C33_Witness ==
    \E r \in ReqSlots :
        /\ req[r].pc = "ttl_sleep"
        /\ req[r].notice # NONE
        /\ req[r].prompt = "posted"
        /\ req[r].late # {}

\* On accept, and in swap and review on every exit, the prompt is deleted
\* by the step that resumes the flow.
PromptDeletedOnResume ==
    [][\A r \in ReqSlots :
          (req[r].pc = "resolved" /\ req'[r].pc # "resolved"
           /\ (req[r].outcome = "accept" \/ req[r].kind \in {"swap", "review"}))
              => req'[r].prompt = "deleted"]_vars

\* ------------------------------------------------ one answer per question
\* the intake dialog of flow f returned without raising
IntakeCompleted(f) ==
    /\ f.kind = "ticket_request"
    /\ f.pc \notin {"idle", "preamble", "question"}
    /\ f.outcome \notin {"intake_cancelled", "intake_timeout"}

\* C34: when the intake dialog completes successfully the responses hold
\* exactly one answer per configured question, in question order, and answer
\* i is the reply of the requester that was accepted for question i.
C34_OneAnswerPerQuestion ==
    /\ [](\A r \in ReqSlots :
            /\ req[r].pc = "question" => Len(req[r].responses) = req[r].qi - 1
            /\ IntakeCompleted(req[r]) =>
                  /\ Len(req[r].responses) = Len(questions)
                  /\ \A i \in 1..Len(req[r].responses) :
                        /\ ContentLen(req[r].responses[i]) <= MAX_QUESTION_LEN
                        /\ Lower(req[r].responses[i]) # QUESTIONS_CANCEL)
    /\ [][\A r \in ReqSlots :
            req'[r].responses # req[r].responses =>
                /\ req[r].pc = "question"
                /\ Len(req'[r].responses) = req[r].qi
                /\ SubSeq(req'[r].responses, 1, req[r].qi - 1) = req[r].responses
                /\ \E c \in ReplyContents :
                      /\ ContentLen(c) <= MAX_QUESTION_LEN
                      /\ MessageEvent(req[r].chan, req[r].user, c)
                      /\ req'[r].responses[req[r].qi] = c]_vars

\* C34 witness: an intake with two questions completed after an over-length
\* reply was re-asked; the two answers are the two accepted replies.
C34_Witness ==
    \E r \in ReqSlots :
        /\ req[r].pc = "gathered"
        /\ req[r].retries > 0
        /\ req[r].responses = <<"#chan", "long500">>

C35_Reused ==
    \E w \in WizSlots :
        /\ ~wiz[w].created /\ wiz[w].pc = "wait"
        /\ ADMIN_ROLE \in member_roles(wiz[w].author)
        /\ GUILD \in guild_configs

\* ------------------------------------------- commands outside a ticket
\* the lookup of close, rename and swap in channel ch fails
NoTicketRow(ch) == get_ticket(GUILD, NONE, ch).raised # NONE

\* the lookup of review in channel ch fails, or finds a ticket that is not
\* a practice ticket
NoPracticeRow(ch) ==
    LET got == get_ticket(GUILD, NONE, ch)
    IN  got.raised # NONE \/ ~tickets[got.id].is_practice

\* C36: close, rename, swap and review issued in a channel that has no
\* Ticket row, and review issued in a channel of a ticket that is not a
\* practice ticket, are rejected with InvalidCommandArgs before any prompt is
\* posted, any channel is edited or deleted, or any row is changed.
C36_NoRowRejected ==
    /\ [][\A r \in ReqSlots :
            (req[r].kind = NONE /\ req'[r].kind \in {"swap", "review"}
             /\ IF req'[r].kind = "swap" THEN NoTicketRow(req'[r].chan)
                                          ELSE NoPracticeRow(req'[r].chan)) =>
                /\ req'[r].pc = "done" /\ req'[r].outcome = "InvalidCommandArgs"
                /\ req'[r].prompt = NONE /\ req'[r].echo = {}
                /\ UNCHANGED <<tickets, channels, logchan, removals>>]_vars
    /\ [][\A k \in ClSlots :
            (cl[k].pc = "idle" /\ cl'[k].pc # "idle" /\ NoTicketRow(cl'[k].chan)) =>
                /\ cl'[k].pc = "done" /\ cl'[k].outcome = "InvalidCommandArgs"
                /\ ~cl'[k].transcript /\ cl'[k].deleted = {}
                /\ UNCHANGED <<tickets, channels, logchan>>]_vars
    /\ [][\A ch \in CommandChans :
            (rename(ch) /\ NoTicketRow(ch)) =>
                /\ result'.raised = "InvalidCommandArgs"
                /\ UNCHANGED <<tickets, channels, logchan>>]_vars
    /\ [](\A r \in ReqSlots : req[r].outcome = "InvalidCommandArgs" =>
            req[r].pc = "done" /\ req[r].prompt = NONE)
    /\ [](\A k \in ClSlots : cl[k].outcome = "InvalidCommandArgs" =>
            cl[k].pc = "done" /\ cl[k].deleted = {})

\* C36 witness: a close and a rename in the support channel and a review in
\* the channel of a ticket that is not a practice ticket were rejected; the
\* two tickets and their channels are as they were.
C36_Witness ==
    /\ \E k \in ClSlots : cl[k].chan = SUPPORT /\ cl[k].outcome = "InvalidCommandArgs"
    /\ \E r \in ReqSlots :
          req[r].kind = "review" /\ req[r].chan = Chan(1) /\ req[r].outcome = "InvalidCommandArgs"
    /\ result.call = "rename" /\ result.channel_id = SUPPORT
    /\ tickets = OpenTickets /\ DOMAIN channels = {Chan(1), Chan(2)}

\* a swap in the support channel was rejected
C36_SwapRejected ==
    \E r \in ReqSlots :
        req[r].kind = "swap" /\ req[r].chan = SUPPORT /\ req[r].outcome = "InvalidCommandArgs"

\* ------------------------------------------------- overlapping swaps
\* the actors other than the requester that hold the `user` overwrite on the
\* channel of ticket t
UserHolders(t) ==
    LET ow == channels[tickets[t].channel_id]
    IN  {p \in Members \ {tickets[t].user_id} : p \in DOMAIN ow /\ ow[p] = "user"}

\* C37 as stated: once the swaps of a ticket have returned, overlapping
\* rounds included, exactly one actor other than the requester holds the
\* `user` overwrite on the backing channel, and it is the ticket's responder.
C37_AsStated ==
    (\A r \in ReqSlots : req[r].pc \in {"idle", "done"}) =>
        UserHolders(1) = {tickets[1].supporter_id}

\* C37 witness: the swap that was suspended has been accepted and applied,
\* and two actors other than the requester hold the `user` overwrite.
C37_Witness ==
    \E r \in ReqSlots :
        /\ req[r].kind = "swap" /\ req[r].pc = "done" /\ req[r].outcome = "accept"
        /\ Cardinality(UserHolders(1)) = 2

\* What an applied swap does: the responder it accepted holds `user` and is
\* the recorded responder, and the responder it found when it was issued
\* holds `none` unless it is the same actor.
SwapAppliesItsOwn ==
    [][\A r \in ReqSlots :
          (req[r].pc = "cleaned" /\ req[r].kind = "swap" /\ req'[r].pc = "done"
           /\ req'[r].outcome = "accept") =>
              LET ow == channels'[req[r].chan]
              IN  /\ ow[req[r].responder] = "user"
                  /\ tickets'[req[r].ticket].supporter_id = req[r].responder
                  /\ req[r].old_responder # req[r].responder =>
                        ow[req[r].old_responder] = "none"]_vars

\* ------------------------------------------- responders of adult tickets
\* the ticket was requested with adult support while an adult role was
\* configured: its request message mentions the adult role only
AdultTicket(t) ==
    /\ config.adult_role_id # NONE
    /\ tickets[t].request_msg = {config.adult_role_id}

\* C38 as stated: the responder of a ticket requested with adult support
\* holds the adult role, at creation and after every later swap.
C38_AsStated ==
    \A t \in DOMAIN tickets :
        AdultTicket(t) => config.adult_role_id \in member_roles(tickets[t].supporter_id)

\* C38 witness: a swap of the adult ticket was accepted by a member without
\* the adult role and applied.
C38_Witness ==
    \E r \in ReqSlots :
        /\ req[r].kind = "swap" /\ req[r].pc = "done" /\ req[r].outcome = "accept"
        /\ AdultTicket(req[r].ticket)
        /\ tickets[req[r].ticket].supporter_id = req[r].responder
        /\ config.adult_role_id \notin member_roles(req[r].responder)

\* At creation the claim holds: a request with adult support in a guild with
\* an adult role is accepted only by a holder of that role, who becomes the
\* responder of the row.
AdultAtCreation ==
    /\ \A r \in ReqSlots :
          (req[r].kind = "ticket_request" /\ req[r].adult_needed
           /\ config.adult_role_id # NONE /\ req[r].outcome = "accept") =>
              config.adult_role_id \in member_roles(req[r].responder)
    /\ \A t \in DOMAIN tickets :
          (tickets[t].origin # 0 /\ AdultTicket(t)) =>
              config.adult_role_id \in member_roles(tickets[t].supporter_id)

\* a request with adult support was accepted and its ticket created
AdultTicketCreated ==
    \E t \in DOMAIN tickets : tickets[t].origin # 0 /\ AdultTicket(t) /\ tickets[t].committed

\* ------------------------------------------------- a cancelled ticket_setup
\* the TicketConfig rows that are committed: the rows of the commands that
\* have returned (Admin.execute commits after the subcommand returns); the
\* row of a wizard that is still asking is flushed only
CommittedConfigs ==
    {id \in DOMAIN ticket_configs :
        \A s \in SetupSlots : setup[s].id = id => setup[s].pc = "done"}

\* C39 as stated: when the admin cancels ticket_setup with the stop token,
\* the committed TicketConfig rows are the same as before the command: the
\* row the cancelled command had flushed is not among them.
C39_AsStated ==
    \A s \in SetupSlots :
        (setup[s].pc = "done" /\ setup[s].outcome = "cancelled") =>
            setup[s].id \notin CommittedConfigs

\* C39 witness: a ticket_setup was cancelled at its prefix prompt and its
\* row is committed with the column defaults in the place of prefix and emoji.
C39_Witness ==
    \E s \in SetupSlots :
        /\ setup[s].pc = "done" /\ setup[s].outcome = "cancelled"
        /\ setup[s].id \in CommittedConfigs
        /\ ticket_configs[setup[s].id].prefix = NOT_SET
        /\ ticket_configs[setup[s].id].emoji_id = 0

\* What the left-over row does: while it exists, a new ticket_setup of the
\* same guild fails on the unique constraints.
LeftOverBlocksSetup ==
    \E s, j \in SetupSlots :
        /\ setup[s].outcome = "cancelled" /\ setup[j].outcome = "IntegrityError"
        /\ setup[s].guild_id = setup[j].guild_id

\* ------------------------------------------- one message, one answer
\* the flows that record the message of a step as an answer
Recording == {r \in ReqSlots : req'[r].responses # req[r].responses}

\* C40 as stated: each message of a requester is recorded as the answer to
\* at most one pending intake question, also when the requester has a second
\* ticket request running in the same channel.
C40_AsStated == [][Cardinality(Recording) <= 1]_vars

\* C40 witness: two intake dialogs of the same requester in the same channel
\* have both recorded an answer to their first question.
C40_Witness ==
    \E r, q \in ReqSlots :
        /\ r # q
        /\ req[r].user = req[q].user /\ req[r].chan = req[q].chan
        /\ req[r].pc = "question" /\ req[q].pc = "question"
        /\ req[r].responses = <<"#chan">> /\ req[q].responses = <<"#chan">>

\* With one dialog pending, a message is recorded once.
OneDialogOneAnswer ==
    [][Cardinality({r \in ReqSlots : req[r].pc = "question"}) <= 1
          => Cardinality(Recording) <= 1]_vars

====
